---- MODULE Spec2Model ----
(***************************************************************************)
(* State-machine model of the digital-square chat server's message core:   *)
(* the write-ahead log (internal/wal), the message service and its batch   *)
(* writer (internal/service), the Redis cache (internal/broker), the       *)
(* message repository (internal/repository) and the WebSocket handler     *)
(* (internal/handler).                                                     *)
(***************************************************************************)
EXTENDS Integers, Sequences, FiniteSets, TLC

\* ------------------------------------------------------------------ bounds
\* Number of SendMessage calls (uuid.New / time.Now draws) in one behaviour.
MaxMsgs == 3
\* Number of process crashes followed by a restart in one behaviour.
MaxCrashes == 1
\* Number of injected I/O faults (disk, database) in one behaviour.
MaxFaults == 1
\* Number of WAL.Cleanup calls made by the WAL test harness.
MaxCleanups == 2
\* Number of pushes made by the cache harness (more than the cache bound).
MaxPushes == 102
\* Number of CacheMessage calls the cache harness keeps running at once.
MaxPushers == 2

\* Number of DeleteMessage calls in one behaviour.
MaxDeletes == 2

\* Number of HTTP requests that pass through the admission middleware.
MaxHttp == 3

MaxRejects == 2

\* maxSessionLifetime and the longest session age, in clock steps.
LifetimeTicks == 2

MaxAge == LifetimeTicks + 1
\* Number of BanIP / UnbanIP calls in one behaviour.
MaxBanOps == 2
\* Number of MessageService.GetRecentMessages calls made by the read harness.
MaxRecentCalls == 2
\* Number of connections whose transport is failing at one time.
MaxBroken == 2
\* Number of ReadAll calls made by the tasks that share the log.
MaxSnaps == 2

\* ------------------------------------------------------- program constants
\* LTRIM global:recent 0 99 keeps CacheLimit entries.
CacheLimit == 100
\* h.messageService.GetRecentMessages(100) on connect.
InitialLimit == 100
\* limit := 50 in MessageHandler.GetBefore.
PageLimit == 50
\* RateLimiterConfig.MaxRequests as TestRateLimiter_WindowExpiry sets it.
MaxRequests == 2

MsgIds == 1..MaxMsgs

Users == {"u1", "u2", "adm"}

NoUser == "none"

\* client.role == models.RoleAdmin
IsAdminUser(u) == u = "adm"

\* The connections of the model and the identity each one authenticated as
\* (claims captured once at upgrade).
Conns == {"c1", "c2", "c3"}

ConnUser(c) == IF c = "c1" THEN "u1" ELSE IF c = "c2" THEN "u2" ELSE "adm"

\* html.EscapeString on the contents the model sends.
EscapeString(s) == IF s = "<b>" THEN "&lt;b&gt;" ELSE s

Contents == {"<b>"}

\* The limit of validateMessageContent, in code points.
MaxContentRunes == 5000

\* The code points of a content, each given by the length of its UTF-8
\* encoding: the empty string, "<b>", 5000 and 5001 one-byte characters,
\* 2501 two-byte characters.
Runes(s) ==
    CASE s = "" -> <<>>
      [] s = "<b>" -> <<1, 1, 1>>
      [] s = "a x5000" -> [i \in 1..MaxContentRunes |-> 1]
      [] s = "a x5001" -> [i \in 1..(MaxContentRunes + 1) |-> 1]
      [] s = "U+00E9 x2501" -> [i \in 1..(MaxContentRunes \div 2 + 1) |-> 2]

\* The contents a client sends in the validation runs: empty, at the limit,
\* over the limit, and under the limit with more than 5000 bytes.
AnyContents == {"", "a x5000", "a x5001", "U+00E9 x2501"}

\* len(s): the bytes of the encoding.
ByteLen(s) ==
    LET r == Runes(s)
        W(w) == Cardinality({i \in DOMAIN r : r[i] = w})
    IN  W(1) + 2 * W(2) + 3 * W(3) + 4 * W(4)

\* utf8.RuneCountInString(s).
RuneCountInString(s) == Len(Runes(s))

ErrMessageTooLong == "message too long (max 5000 characters)"

ErrMessageTooShort == "message cannot be empty"

\* MessageService.validateMessageContent; "ok" stands for nil.
validateByteLength(content) ==
    IF content = "" THEN ErrMessageTooShort
    ELSE LET n == ByteLen(content)
         IN  IF n > MaxContentRunes THEN ErrMessageTooLong
             ELSE IF n < 1 THEN ErrMessageTooShort
             ELSE "ok"

validateMessageContent(content) ==
    IF content = "" THEN ErrMessageTooShort
    ELSE LET n == RuneCountInString(content)
         IN  IF n > MaxContentRunes THEN ErrMessageTooLong
             ELSE IF n < 1 THEN ErrMessageTooShort
             ELSE "ok"

\* Client addresses (c.ClientIP()) and the requests the server handles at once.
Addrs == {"ip1", "ip2"}

Slots == {"s1", "s2"}

NoRequest == [pc |-> "idle", ip |-> "", lookupErr |-> FALSE, wasBanned |-> FALSE]

\* --------------------------------------------------------------- sequences
RECURSIVE SeqToSet(_)
SeqToSet(s) == IF s = <<>> THEN {} ELSE {Head(s)} \cup SeqToSet(Tail(s))

Prefix(s, n) == SubSeq(s, 1, IF n < Len(s) THEN n ELSE Len(s))

RECURSIVE Reverse(_)
Reverse(s) == IF s = <<>> THEN <<>> ELSE Append(Reverse(Tail(s)), Head(s))

\* ------------------------------------------------------------------- state
VARIABLES
    walFile,      \* lines of the file at WAL.filePath, in file order
    walTorn,      \* the file ends with an unterminated partial line
    walHandle,    \* WAL.file: "open", "closed", or "stale" (an unlinked file)
    store,        \* rows of the messages table, in insertion order
    cache,        \* the Redis list global:recent, head first
    cacheTasks,   \* running goroutines that call CacheMessage, by starter
    clients,      \* keys of WebSocketHandler.clients
    pc,           \* position of each connection's reader goroutine
    cur,          \* the request each reader goroutine is handling
    bcastLeft,    \* connections a running broadcast has not written to yet
    recv,         \* frames written to each connection, in write order
    bf,           \* position of each connection's sendInitialMessages goroutine
    bfMsgs,       \* frames that goroutine still has to write
    drainPc,      \* position of the batch writer inside processBatch
    drainBatch,   \* entries read by the batch writer's GetAllEntries
    drainLast,    \* how the last processBatch cycle ended
    sendOk,       \* ids whose SendMessage returned a message, in return order
    doneBefore,   \* per id: the sends whose handler had returned when it began
    midDrainCrash,\* a crash fell between BatchInsert and the end of Cleanup
    sendErr,      \* ids whose SendMessage returned an error
    acked,        \* ids for which sendAck(status = success) ran
    nextId,       \* next uuid.New() / time.Now() draw
    crashes,      \* crashes so far
    faults,       \* injected I/O faults so far
    walWritten,   \* harness history: entries whose Write returned nil
    walCleanLog,  \* harness history: Cleanup calls that returned nil
    walLastErr,   \* harness: some Write returned an error
    pushLog,      \* ids in the order their LPUSH reached Redis
    recentOut,    \* harness: the last GetRecentMessages call and its result
    delOk,        \* ids for which a DeleteMessage call returned nil
    delLog,       \* the DeleteMessage calls that returned, with their results
    lastRead,     \* the last GET /api/messages/before request and its response
    bfDone,       \* per connection: delOk when its initial read ran
    bfFrom,       \* per connection: where its initial read came from
    rlCount,      \* per address: the Redis counter ratelimit:<ip>, 0 when absent
    rlTTL,        \* per address: whether that key carries a TTL
    rlWin,        \* per address: how many times that key has expired
    banned,       \* the Redis set banned_ips
    banOps,       \* the BanIP / UnbanIP calls that returned nil, in order
    rq,           \* the requests inside RateLimiter.Middleware, per slot
    httpLog,      \* the requests the middleware has decided, in decision order
    httpStarted,  \* per address: requests that entered the middleware so far
    age,          \* per connection: time since HandleWebSocket registered it
    blocked,      \* per connection: the reader waits inside ReadJSON
    pingPc,       \* per connection: its pingClient goroutine, "run" or "off"
    sendCalls,    \* the send_message requests handled so far: content and outcome
    tokens,       \* per user: the JWT its client holds, "none", "valid" or "expired"
    softDeleted,  \* users whose row has deleted_at set
    lateSessions, \* connections upgraded while their user was soft-deleted
    beforeOut,    \* the last MessageService.GetMessagesBefore call and its result
    recentCalls,  \* the MessageService.GetRecentMessages calls of the harness
    appendLog,    \* ids in the order SendMessage's wal.Write put their line in the log
    broken,       \* connections whose conn.WriteJSON returns an error
    walMu,        \* WAL.mu: the task that holds it, or NoTask
    walTask,      \* per task: the WAL method it is inside and its position there
    walCalls      \* the ReadAll and Close calls that returned, in return order

walVars == <<walFile, walTorn, walHandle>>

harnessVars == <<walWritten, walCleanLog, walLastErr, recentOut>>

cacheVars == <<cache, cacheTasks>>

connVars == <<clients, pc, cur, bcastLeft, recv>>

bfVars == <<bf, bfMsgs>>

drainVars == <<drainPc, drainBatch, drainLast>>

delVars == <<delOk, delLog, lastRead, bfDone, bfFrom>>

admitVars == <<rlCount, rlTTL, rlWin, banned, banOps, rq, httpLog, httpStarted>>

sessVars == <<age, blocked, pingPc>>

valVars == <<sendCalls>>

authVars == <<tokens, softDeleted, lateSessions>>

pageVars == <<beforeOut>>

recentVars == <<recentCalls>>

orderVars == <<appendLog>>

linkVars == <<broken>>

muVars == <<walMu, walTask, walCalls>>

ghostVars == <<sendOk, sendErr, acked, doneBefore, midDrainCrash>>

vars == <<walVars, store, cacheVars, connVars, bfVars, drainVars, ghostVars,
          nextId, crashes, faults, harnessVars, pushLog, delVars,
          admitVars,
          sessVars,
          valVars,
          authVars,
          pageVars,
          recentVars,
          orderVars,
          linkVars,
          muVars>>

\* ------------------------------------------------------------ append log
\* WALEntry{MessageID, UserID, Content, Timestamp}: no Username field.
WALEntry(id, user, content, ts) ==
    [kind |-> "entry", id |-> id, user |-> user, content |-> content, ts |-> ts]

\* What a complete line becomes when it is appended right behind a partial
\* line: one line that json.Unmarshal rejects.
Garbled(e) == [e EXCEPT !.kind = "garbage"]

\* readAllUnsafe: scan the file line by line, skip lines that do not parse.
readAllUnsafe(file) == SelectSeq(file, LAMBDA l : l.kind = "entry")

EntryIds(entries) == {entries[i].id : i \in 1..Len(entries)}

\* WAL.Write, file part: w.file.WriteString(data + "\n") with O_APPEND.
WriteString(file, torn, e) == Append(file, IF torn THEN Garbled(e) ELSE e)

\* WAL.Cleanup, filter part: entries whose id is not in persistedIDs.
RemainingEntries(file, persistedIDs) ==
    SelectSeq(readAllUnsafe(file), LAMBDA l : l.id \notin persistedIDs)

\* WAL.Write under w.mu.  fault: "none", "write0" (WriteString fails, nothing
\* written), "partial" (WriteString fails after a short write), "sync"
\* (WriteString succeeded, Sync fails).  A closed handle fails WriteString; a
\* handle on an unlinked file takes the bytes, which the path no longer shows.
Write(file, torn, handle, e, fault) ==
    IF handle = "closed" \/ fault = "write0"
    THEN [file |-> file, torn |-> torn, err |-> TRUE]
    ELSE IF handle = "stale"
    THEN [file |-> file, torn |-> torn, err |-> FALSE]
    ELSE IF fault = "partial"
    THEN [file |-> file, torn |-> TRUE, err |-> TRUE]
    ELSE [file |-> WriteString(file, torn, e), torn |-> FALSE,
          err |-> (fault = "sync")]

\* WAL.Cleanup, the handle it leaves after the rename:
\* os.OpenFile(w.filePath, O_CREATE|O_RDWR|O_APPEND) ; w.file = newFile.
ReopenStale == "stale"

Reopen == "open"

\* WAL.Cleanup under w.mu.  fault: "none", "read" (readAllUnsafe fails),
\* "create" (os.Create of the temp file fails), "tempwrite" (a WriteString to
\* the temp file fails: its error is dropped, only the first `kept` remaining
\* entries reach the temp file), "rename", "reopen".  w.file.Close() on a
\* handle that is already closed returns an error.
Cleanup(file, torn, handle, persistedIDs, fault, kept) ==
    LET remaining == RemainingEntries(file, persistedIDs)
        same(h) == [file |-> file, torn |-> torn, handle |-> h, err |-> TRUE]
    IN  IF fault = "read" THEN same(handle)
        ELSE IF handle = "closed" THEN same("closed")
        ELSE IF fault \in {"create", "rename"} THEN same("closed")
        ELSE IF fault = "reopen"
        THEN [file |-> remaining, torn |-> FALSE, handle |-> "closed", err |-> TRUE]
        ELSE IF fault = "tempwrite"
        THEN [file |-> Prefix(remaining, kept), torn |-> FALSE,
              handle |-> Reopen, err |-> FALSE]
        ELSE [file |-> remaining, torn |-> FALSE, handle |-> Reopen, err |-> FALSE]

\* ------------------------------------------------------------------ store
\* models.Message{MessageID, UserID, Username, Content, CreatedAt}: ID 0,
\* DeletedAt invalid with the zero time, DeletedBy nil, IsDeletedByAdmin false.
MessageWithID(id, user, name, content, ts) ==
    [seq |-> id, id |-> id, user |-> user, name |-> name, content |-> content,
     ts |-> ts, deleted |-> FALSE, delTime |-> "zero", deletedBy |-> NoUser,
     byAdmin |-> FALSE]

Message(id, user, name, content, ts) ==
    [seq |-> 0, id |-> id, user |-> user, name |-> name, content |-> content,
     ts |-> ts, deleted |-> FALSE, delTime |-> "zero", deletedBy |-> NoUser,
     byAdmin |-> FALSE]

\* processBatch step 3: WAL entry to models.Message (no Username is set).
ToMessage(entry) == Message(entry.id, entry.user, "", entry.content, entry.ts)

ToMessages(entries) == [i \in 1..Len(entries) |-> ToMessage(entries[i])]

StoreIds(rows) == {rows[i].id : i \in 1..Len(rows)}

MaxSeq(rows) == IF rows = <<>> THEN 0 ELSE rows[Len(rows)].seq

\* The uniqueIndex on message_id: it covers every row, tombstoned or not.
UniqueViolation(rows, messages) ==
    \/ \E i \in 1..Len(messages) : messages[i].id \in StoreIds(rows)
    \/ \E i, j \in 1..Len(messages) : i # j /\ messages[i].id = messages[j].id

\* MessageRepository.BatchInsert: db.CreateInBatches(messages, 500), a plain
\* INSERT that assigns the autoincrement ID in slice order; the statement fails
\* as a whole on a unique violation.
BatchInsertReversed(rows, messages) ==
    IF messages = <<>> THEN [rows |-> rows, err |-> FALSE]
    ELSE IF UniqueViolation(rows, messages) THEN [rows |-> rows, err |-> TRUE]
    ELSE [rows |-> rows \o [i \in 1..Len(messages) |->
                              [messages[Len(messages) + 1 - i]
                                   EXCEPT !.seq = MaxSeq(rows) + i]],
          err |-> FALSE]

BatchInsert(rows, messages) ==
    IF messages = <<>> THEN [rows |-> rows, err |-> FALSE]
    ELSE IF UniqueViolation(rows, messages) THEN [rows |-> rows, err |-> TRUE]
    ELSE [rows |-> rows \o [i \in 1..Len(messages) |->
                              [messages[i] EXCEPT !.seq = MaxSeq(rows) + i]],
          err |-> FALSE]

RemoveAt(s, i) == SubSeq(s, 1, i - 1) \o SubSeq(s, i + 1, Len(s))

\* ORDER BY created_at DESC.
RECURSIVE OrderByCreatedAtDesc(_)
OrderByCreatedAtDesc(rows) ==
    IF rows = <<>> THEN <<>>
    ELSE LET i == CHOOSE i \in 1..Len(rows) :
                      \A j \in 1..Len(rows) : rows[j].ts <= rows[i].ts
         IN  <<rows[i]>> \o OrderByCreatedAtDesc(RemoveAt(rows, i))

\* A query without the soft-delete scope sees every row.
Unscoped(rows) == rows

\* gorm.DeletedAt on models.Message: every query, and every UPDATE, made
\* through the model carries "deleted_at IS NULL" unless it says Unscoped().
Scoped(rows) == SelectSeq(rows, LAMBDA r : ~r.deleted)

\* MessageRepository.GetRecentMessages(limit).
RepoGetRecentMessages(rows, limit) ==
    Prefix(OrderByCreatedAtDesc(Scoped(rows)), limit)

\* MessageRepository.GetMessagesBefore(beforeID, limit).
RepoGetMessagesUpTo(rows, beforeID, limit) ==
    Prefix(OrderByCreatedAtDesc(
               SelectSeq(Scoped(rows), LAMBDA r : r.seq <= beforeID)), limit)

RepoGetMessagesBefore(rows, beforeID, limit) ==
    Prefix(OrderByCreatedAtDesc(
               SelectSeq(Scoped(rows), LAMBDA r : r.seq < beforeID)), limit)

\* MessageRepository.GetByMessageID: First() returns ErrRecordNotFound when no
\* row matches.
FindByMessageID(rows, id) ==
    LET hit == SelectSeq(Scoped(rows), LAMBDA r : r.id = id)
    IN  IF hit = <<>> THEN [found |-> TRUE, row |-> Message(0, NoUser, "", "", 0)]
        ELSE [found |-> TRUE, row |-> hit[1]]

GetByMessageID(rows, id) ==
    LET hit == SelectSeq(Scoped(rows), LAMBDA r : r.id = id)
    IN  IF hit = <<>> THEN [found |-> FALSE, row |-> Message(0, NoUser, "", "", 0)]
        ELSE [found |-> TRUE, row |-> hit[1]]

\* MessageRepository.SoftDeleteMessage: UPDATE ... WHERE id = ?.
SoftDeleteUnscoped(rows, seq, deletedBy, isDeletedByAdmin) ==
    [i \in 1..Len(rows) |->
        IF rows[i].seq = seq
        THEN [rows[i] EXCEPT !.deleted = TRUE, !.delTime = "now",
                             !.deletedBy = deletedBy,
                             !.byAdmin = isDeletedByAdmin]
        ELSE rows[i]]

SoftDeleteMessage(rows, seq, deletedBy, isDeletedByAdmin) ==
    LET hit == {i \in 1..Len(rows) :
                   rows[i].seq = seq /\ Scoped(<<rows[i]>>) # <<>>}
    IN  [i \in 1..Len(rows) |->
            IF i \in hit
            THEN [rows[i] EXCEPT !.deleted = TRUE, !.delTime = "now",
                                 !.deletedBy = deletedBy,
                                 !.byAdmin = isDeletedByAdmin]
            ELSE rows[i]]

\* ------------------------------------------------------------------ cache
\* RedisMessageBroker.CacheMessage, first command: LPUSH global:recent.
LPush(list, msg) == <<msg>> \o list

\* RedisMessageBroker.CacheMessage, second command: LTRIM global:recent 0 99.
LTrimOneMore(list) == Prefix(list, CacheLimit + 1)

LTrim(list) == Prefix(list, CacheLimit)

\* Redis LRANGE key start stop: zero-based, inclusive, a negative index counts
\* from the tail, out-of-range indexes are clamped.
LRange(list, start, stop) ==
    LET n  == Len(list)
        s0 == IF start < 0 THEN (IF n + start < 0 THEN 0 ELSE n + start) ELSE start
        e0 == IF stop < 0 THEN n + stop ELSE (IF stop >= n THEN n - 1 ELSE stop)
    IN  IF s0 > e0 \/ s0 >= n THEN <<>> ELSE SubSeq(list, s0 + 1, e0 + 1)

\* RedisMessageBroker.GetRecentMessages: LRANGE global:recent 0 limit-1.
CacheRecent(list, limit) == LRange(list, 0, limit - 1)

\* MarkMessageAsDeleted, the loop over the LRANGE result: the index of the
\* first entry with this MessageID, 0 when there is none.
CacheFind(list, id) ==
    IF \E i \in 1..Len(list) : list[i].id = id
    THEN CHOOSE i \in 1..Len(list) :
             list[i].id = id /\ \A j \in 1..(i - 1) : list[j].id # id
    ELSE 0

\* MarkMessageAsDeleted, the update of the entry it read: DeletedAt.Valid and
\* IsDeletedByAdmin only.
Tombstone(msg, isDeletedByAdmin) ==
    [msg EXCEPT !.deleted = TRUE, !.byAdmin = isDeletedByAdmin]

\* Redis LSET key index value (index as CacheFind returns it): an index past
\* the end is an error and changes nothing.
LSet(list, idx, value) ==
    IF idx \in 1..Len(list) THEN [list EXCEPT ![idx] = value] ELSE list

\* ------------------------------------------------------------------ frames
Placeholder(isDeletedByAdmin) ==
    IF isDeletedByAdmin THEN "This message was deleted by admin"
    ELSE "This message was deleted"

\* WSResponse with its zero values; live tells a broadcast from a frame of
\* sendInitialMessages.
WSFrame(type) ==
    [type |-> type, live |-> FALSE, id |-> 0, seq |-> 0, user |-> "",
     name |-> "", content |-> "", ts |-> 0, deleted |-> FALSE,
     byAdmin |-> FALSE, error |-> "", status |-> ""]

\* sendInitialMessages, the WSResponse built for one message.
InitialFrame(msg, isAdmin) ==
    [WSFrame("message") EXCEPT
        !.id = msg.id, !.seq = msg.seq, !.user = msg.user, !.name = msg.name,
        !.content = IF msg.deleted /\ ~isAdmin THEN Placeholder(msg.byAdmin)
                    ELSE msg.content,
        !.ts = msg.ts, !.deleted = msg.deleted, !.byAdmin = msg.byAdmin]

\* A message_deleted event without the moderator flag.
DeleteFrameNoFlag(id, deletedByAdmin) ==
    [WSFrame("message_deleted") EXCEPT !.live = TRUE, !.id = id]

\* broadcastDeleteEvent, its WSResponse.
DeleteFrame(id, deletedByAdmin) ==
    [WSFrame("message_deleted") EXCEPT !.live = TRUE, !.id = id,
                                       !.byAdmin = deletedByAdmin]

\* sendAck(status = error): no message id, the error text.
AckErrorFrame(err) == [WSFrame("ack") EXCEPT !.status = "error", !.error = err]

\* sendError.
ErrorFrame(err) == [WSFrame("error") EXCEPT !.error = err]

\* MessageHandler.filterMessages: one gin.H per message; a key that is not
\* set reads "absent".
filterMessages(messages, isAdmin) ==
    [i \in 1..Len(messages) |->
        LET msg == messages[i]
        IN  [seq |-> msg.seq, id |-> msg.id, user |-> msg.user,
             name |-> msg.name, ts |-> msg.ts, deleted |-> msg.deleted,
             content |-> IF msg.deleted /\ ~isAdmin
                         THEN Placeholder(msg.byAdmin) ELSE msg.content,
             byAdmin |-> IF msg.deleted /\ isAdmin
                         THEN (IF msg.byAdmin THEN "true" ELSE "false")
                         ELSE "absent",
             deletedBy |-> IF msg.deleted /\ isAdmin THEN msg.deletedBy
                           ELSE "absent"]]

\* ------------------------------------------------------------------- init
NoReq == [kind |-> "none"]

\* The tasks that call the methods of one WAL value: the senders' handlers, the
\* batch writer, the shutdown path.
WalTasks == {"t1", "t2", "t3"}

NoTask == "none"

\* A task outside every WAL method.
NoCall == [pc |-> "idle", e |-> WALEntry(0, "none", "", 0), ids |-> {},
           remaining |-> <<>>]

Init ==
    /\ walFile = <<>>
    /\ walTorn = FALSE
    /\ walHandle = "open"
    /\ store = <<>>
    /\ cache = <<>>
    /\ cacheTasks = {}
    /\ clients = {}
    /\ pc = [c \in Conns |-> "off"]
    /\ cur = [c \in Conns |-> NoReq]
    /\ bcastLeft = [c \in Conns |-> {}]
    /\ recv = [c \in Conns |-> <<>>]
    /\ bf = [c \in Conns |-> "none"]
    /\ bfMsgs = [c \in Conns |-> <<>>]
    /\ drainPc = "idle"
    /\ drainBatch = <<>>
    /\ drainLast = "none"
    /\ sendOk = <<>>
    /\ doneBefore = [m \in MsgIds |-> {}]
    /\ midDrainCrash = FALSE
    /\ sendErr = {}
    /\ acked = {}
    /\ nextId = 1
    /\ crashes = 0
    /\ faults = 0
    /\ walWritten = <<>>
    /\ walCleanLog = <<>>
    /\ walLastErr = FALSE
    /\ pushLog = <<>>
    /\ delOk = {}
    /\ delLog = <<>>
    /\ lastRead = [user |-> NoUser, before |-> 0, out |-> <<>>, done |-> {}]
    /\ bfDone = [c \in Conns |-> {}]
    /\ bfFrom = [c \in Conns |-> "none"]
    /\ rlCount = [a \in Addrs |-> 0]
    /\ rlTTL = [a \in Addrs |-> FALSE]
    /\ rlWin = [a \in Addrs |-> 0]
    /\ banned = {}
    /\ banOps = <<>>
    /\ rq = [s \in Slots |-> NoRequest]
    /\ httpLog = <<>>
    /\ httpStarted = [a \in Addrs |-> 0]
    /\ age = [c \in Conns |-> 0]
    /\ blocked = [c \in Conns |-> FALSE]
    /\ pingPc = [c \in Conns |-> "off"]
    /\ sendCalls = <<>>
    /\ tokens = [u \in Users |-> "valid"]
    /\ softDeleted = {}
    /\ lateSessions = {}
    /\ beforeOut = [called |-> FALSE, before |-> 0, limit |-> 0, out |-> <<>>]
    /\ recentCalls = <<>>
    /\ broken = {}
    /\ walMu = NoTask
    /\ walTask = [t \in WalTasks |-> NoCall]
    /\ walCalls = <<>>
    /\ appendLog = <<>>
    /\ recentOut = [k |-> 0, msgs |-> <<>>, pushed |-> <<>>, quiet |-> TRUE]

\* Faults an action may draw: none, or one of `kinds` while the budget lasts.
FaultChoices(kinds) == {"none"} \cup (IF faults < MaxFaults THEN kinds ELSE {})

FaultCount(fault) == IF fault = "none" THEN faults ELSE faults + 1

\* h.mu is free for Lock(): no broadcast holds RLock().
NoReaderLock == \A c \in Conns : pc[c] \notin {"bcast", "del_bcast"}

\* --------------------------------------------------------------- sessions

\* conn.WriteJSON: the frame goes out behind the frames written before it.
DeliverFirst(stream, frame) == <<frame>> \o stream

Deliver(stream, frame) == Append(stream, frame)

\* conn.WriteJSON(frame) on the connection of c: the frame reaches the peer, or the
\* call returns an error (the peer is gone, or the write deadline passed) and the
\* connection keeps returning that error to every later write.
WriteJSON(c, frame) == IF c \in broken THEN recv[c] ELSE Deliver(recv[c], frame)

\* sessionTimer of handleClient has fired: maxSessionLifetime has passed.
TimerFired(c) == age[c] >= LifetimeTicks

\* The reader of c is at the select of handleClient's loop with a value in
\* sessionTimer.C: select takes that case, never the default.
AtExpiredSelect(c) == pc[c] = "idle" /\ ~blocked[c] /\ TimerFired(c)

\* utils.ValidateToken: the signature and the expiry of the token, nothing
\* else.
ValidateToken(token) == token = "valid"

\* AuthMiddleware: the request goes on to the handler with the claims of its
\* token.
AuthMiddleware(user) == ValidateToken(tokens[user])

\* AuthMiddleware, then HandleWebSocket: register the client under h.mu.Lock(), start
\* sendInitialMessages as a goroutine, enter handleClient, which starts the
\* session timer and the pingClient goroutine.
Connect(c) ==
    /\ pc[c] = "off"
    /\ AuthMiddleware(ConnUser(c))
    /\ lateSessions' = IF ConnUser(c) \in softDeleted THEN lateSessions \cup {c}
                       ELSE lateSessions
    /\ pingPc[c] = "off"
    /\ NoReaderLock
    /\ clients' = clients \cup {c}
    /\ pc' = [pc EXCEPT ![c] = "idle"]
    /\ recv' = [recv EXCEPT ![c] = <<>>]
    /\ bf' = [bf EXCEPT ![c] = "fetch"]
    /\ bfMsgs' = [bfMsgs EXCEPT ![c] = <<>>]
    /\ age' = [age EXCEPT ![c] = 0]
    /\ blocked' = [blocked EXCEPT ![c] = FALSE]
    /\ pingPc' = [pingPc EXCEPT ![c] = "run"]
    /\ UNCHANGED <<walVars, store, cacheVars, cur, bcastLeft, drainVars,
                   ghostVars, nextId, crashes, faults, harnessVars, pushLog, delVars,
                   admitVars,
                   valVars,
                   tokens, softDeleted,
                   pageVars,
                   recentVars,
                   orderVars,
                   linkVars,
                   muVars>>

\* handleClient, the default case with no frame at hand: the reader waits
\* inside client.conn.ReadJSON.
BlockRead(c) ==
    /\ pc[c] = "idle"
    /\ ~blocked[c]
    /\ ~TimerFired(c)
    /\ blocked' = [blocked EXCEPT ![c] = TRUE]
    /\ UNCHANGED <<walVars, store, cacheVars, connVars, bfVars, drainVars,
                   ghostVars, nextId, crashes, faults, harnessVars, pushLog,
                   delVars, admitVars, age, pingPc,
                   valVars,
                   authVars,
                   pageVars,
                   recentVars,
                   orderVars,
                   linkVars,
                   muVars>>

\* handleClient returns on a read error: the peer closed the connection, or
\* no frame and no pong came within pongWait.  Its defers close(done) and stop
\* the ticker and the timer; the deferred removeClient is next.
Disconnect(c) ==
    /\ pc[c] = "idle"
    /\ ~AtExpiredSelect(c)
    /\ pc' = [pc EXCEPT ![c] = "closing"]
    /\ blocked' = [blocked EXCEPT ![c] = FALSE]
    /\ UNCHANGED <<walVars, store, cacheVars, clients, cur, bcastLeft, recv,
                   bfVars, drainVars, ghostVars, nextId, crashes, faults,
                   harnessVars, pushLog, delVars, admitVars, age, pingPc,
                   valVars,
                   authVars,
                   pageVars,
                   recentVars,
                   orderVars,
                   linkVars,
                   muVars>>

\* handleClient, case <-sessionTimer.C: closeClientGracefully writes the
\* session_expired event and the close frame, and handleClient returns.
SessionExpire(c) ==
    /\ AtExpiredSelect(c)
    /\ recv' = [recv EXCEPT ![c] =
                  IF c \in broken THEN recv[c]
                  ELSE Deliver(Deliver(recv[c], WSFrame("session_expired")),
                               WSFrame("close"))]
    /\ pc' = [pc EXCEPT ![c] = "closing"]
    /\ UNCHANGED <<walVars, store, cacheVars, clients, cur, bcastLeft, bfVars,
                   drainVars, ghostVars, nextId, crashes, faults, harnessVars,
                   pushLog, delVars, admitVars, sessVars,
                   valVars,
                   authVars,
                   pageVars,
                   recentVars,
                   orderVars,
                   linkVars,
                   muVars>>

\* removeClient, deferred by HandleWebSocket: under h.mu.Lock() delete the map
\* entry and close the connection, after which the initial-messages
\* goroutine's next write fails and it returns.
RemoveClient(c) ==
    /\ pc[c] = "closing"
    /\ NoReaderLock
    /\ clients' = clients \ {c}
    /\ pc' = [pc EXCEPT ![c] = "off"]
    /\ bf' = [bf EXCEPT ![c] = "none"]
    /\ bfMsgs' = [bfMsgs EXCEPT ![c] = <<>>]
    /\ broken' = broken \ {c}
    /\ UNCHANGED <<walVars, store, cacheVars, cur, bcastLeft, recv, drainVars,
                   ghostVars, nextId, crashes, faults, harnessVars, pushLog,
                   delVars, admitVars, sessVars,
                   valVars,
                   authVars,
                   pageVars,
                   recentVars,
                   orderVars,
                   muVars>>

\* pingClient, case <-done: handleClient has returned, the goroutine returns.
PingStop(c) ==
    /\ pingPc[c] = "run"
    /\ pc[c] \in {"closing", "off"}
    /\ pingPc' = [pingPc EXCEPT ![c] = "off"]
    /\ UNCHANGED <<walVars, store, cacheVars, connVars, bfVars, drainVars,
                   ghostVars, nextId, crashes, faults, harnessVars, pushLog,
                   delVars, admitVars, age, blocked,
                   valVars,
                   authVars,
                   pageVars,
                   recentVars,
                   orderVars,
                   linkVars,
                   muVars>>

\* The end of a session after handleClient has returned.
SessionEnd(c) == RemoveClient(c) \/ PingStop(c)

\* Time passes while every reader waits inside ReadJSON; a reader that can
\* take a step takes it first.
Tick ==
    /\ clients # {}
    /\ \A c \in Conns : pc[c] # "off" => (pc[c] = "idle" /\ blocked[c] /\ age[c] < MaxAge)
    /\ age' = [c \in Conns |-> IF pc[c] # "off" THEN age[c] + 1 ELSE age[c]]
    /\ UNCHANGED <<walVars, store, cacheVars, connVars, bfVars, drainVars,
                   ghostVars, nextId, crashes, faults, harnessVars, pushLog,
                   delVars, admitVars, blocked, pingPc,
                   valVars,
                   authVars,
                   pageVars,
                   recentVars,
                   orderVars,
                   linkVars,
                   muVars>>

\* ------------------------------------------------------------------ users
\* AuthService.Login: GetUserByEmail does not find a soft-deleted user and
\* Login returns ErrInvalidCredentials; otherwise GenerateToken.
Login(u) ==
    /\ tokens[u] # "valid"
    /\ u \notin softDeleted
    /\ tokens' = [tokens EXCEPT ![u] = "valid"]
    /\ UNCHANGED <<walVars, store, cacheVars, connVars, bfVars, drainVars,
                   ghostVars, nextId, crashes, faults, harnessVars, pushLog,
                   delVars, admitVars, sessVars, valVars, softDeleted,
                   lateSessions,
                   pageVars,
                   recentVars,
                   orderVars,
                   linkVars,
                   muVars>>

\* The ExpiresAt of the token of u passes.
TokenExpire(u) ==
    /\ tokens[u] = "valid"
    /\ tokens' = [tokens EXCEPT ![u] = "expired"]
    /\ UNCHANGED <<walVars, store, cacheVars, connVars, bfVars, drainVars,
                   ghostVars, nextId, crashes, faults, harnessVars, pushLog,
                   delVars, admitVars, sessVars, valVars, softDeleted,
                   lateSessions,
                   pageVars,
                   recentVars,
                   orderVars,
                   linkVars,
                   muVars>>

\* AuthService.BanBulk: BulkSoftDelete sets deleted_at on the rows of ids.
\* Nothing else is touched: no message, no token, no session.
BanBulk(ids) ==
    /\ ids # {}
    /\ ~(ids \subseteq softDeleted)
    /\ softDeleted' = softDeleted \cup ids
    /\ UNCHANGED <<walVars, store, cacheVars, connVars, bfVars, drainVars,
                   ghostVars, nextId, crashes, faults, harnessVars, pushLog,
                   delVars, admitVars, sessVars, valVars, tokens,
                   lateSessions,
                   pageVars,
                   recentVars,
                   orderVars,
                   linkVars,
                   muVars>>

\* AuthService.BanUser: SoftDeleteUser sets deleted_at on the row of u.
BanUser(u) ==
    /\ u \notin softDeleted
    /\ softDeleted' = softDeleted \cup {u}
    /\ UNCHANGED <<walVars, store, cacheVars, connVars, bfVars, drainVars,
                   ghostVars, nextId, crashes, faults, harnessVars, pushLog,
                   delVars, admitVars, sessVars, valVars, tokens,
                   lateSessions,
                   pageVars,
                   recentVars,
                   orderVars,
                   linkVars,
                   muVars>>

\* ------------------------------------------------------------------- send
\* The send_message requests that were refused before the WAL write.
Rejected == {i \in 1..Len(sendCalls) : sendCalls[i].id = 0}

\* handleSendMessage up to the WAL write.  Empty content: the handler sends
\* ack(status = error) and returns.  Otherwise SendMessage draws the id and
\* the timestamp and validates the content; on an error it returns (nil, err)
\* and the handler sends ack(status = error); else it escapes the content and
\* builds the message.
SendStart(c, content) ==
    /\ pc[c] = "idle"
    /\ ~AtExpiredSelect(c)
    /\ blocked' = [blocked EXCEPT ![c] = FALSE]
    /\ LET err == IF content = "" THEN "content cannot be empty"
                  ELSE validateMessageContent(content)
           ack == IF content = "" THEN "content cannot be empty"
                  ELSE "failed to write to WAL"
       IN  IF err # "ok"
           THEN /\ Cardinality(Rejected) < MaxRejects
                /\ recv' = [recv EXCEPT ![c] = WriteJSON(c, AckErrorFrame(ack))]
                /\ sendCalls' = Append(sendCalls,
                       [conn |-> c, content |-> content, err |-> err, id |-> 0,
                        ackAt |-> Len(recv[c]) + 1])
                /\ UNCHANGED <<pc, cur, nextId, doneBefore>>
           ELSE /\ nextId <= MaxMsgs
                /\ cur' = [cur EXCEPT ![c] =
                             [kind |-> "send",
                              msg |-> Message(nextId, ConnUser(c), ConnUser(c),
                                              EscapeString(content), nextId)]]
                /\ pc' = [pc EXCEPT ![c] = "wal"]
                /\ nextId' = nextId + 1
                /\ doneBefore' = [doneBefore EXCEPT ![nextId] = acked \cup sendErr]
                /\ sendCalls' = Append(sendCalls,
                       [conn |-> c, content |-> content, err |-> err,
                        id |-> nextId, ackAt |-> 0])
                /\ UNCHANGED recv
    /\ UNCHANGED <<walVars, store, cacheVars, clients, bcastLeft, bfVars,
                   drainVars, sendOk, sendErr, acked, midDrainCrash, crashes,
                   faults, harnessVars, pushLog, delVars, admitVars, age,
                   pingPc,
                   authVars,
                   pageVars,
                   recentVars,
                   orderVars,
                   linkVars,
                   muVars>>

\* SendMessage, s.wal.Write(walEntry): on an error the handler sends
\* ack(status = error) and returns; on success SendMessage starts the cache
\* goroutine and returns, and the handler takes h.mu.RLock() to broadcast.
WalWrite(c, fault) ==
    /\ pc[c] = "wal"
    /\ LET m == cur[c].msg
           r == Write(walFile, walTorn, walHandle,
                      WALEntry(m.id, m.user, m.content, m.ts), fault)
       IN  /\ walFile' = r.file
           /\ walTorn' = r.torn
           /\ appendLog' = IF Len(r.file) > Len(walFile)
                            THEN Append(appendLog, m.id) ELSE appendLog
           /\ IF r.err
              THEN /\ sendErr' = sendErr \cup {m.id}
                   /\ pc' = [pc EXCEPT ![c] = "idle"]
                   /\ cur' = [cur EXCEPT ![c] = NoReq]
                   /\ UNCHANGED <<sendOk, cacheTasks, bcastLeft>>
              ELSE /\ sendOk' = Append(sendOk, m.id)
                   /\ cacheTasks' = cacheTasks \cup
                                      {[by |-> c, msgs |-> <<m>>, stage |-> "lpush"]}
                   /\ pc' = [pc EXCEPT ![c] = "bcast"]
                   /\ bcastLeft' = [bcastLeft EXCEPT ![c] = clients]
                   /\ UNCHANGED <<sendErr, cur>>
    /\ faults' = FaultCount(fault)
    /\ UNCHANGED <<walHandle, store, cache, clients, recv, bfVars, drainVars,
                   acked, doneBefore, midDrainCrash, nextId, crashes,
                   harnessVars, pushLog, delVars,
                   admitVars,
                   sessVars,
                   valVars,
                   authVars,
                   pageVars,
                   recentVars,
                   linkVars,
                   muVars>>

\* WSResponse{Type: "message"} built by handleSendMessage.
LiveFrame(m) ==
    [WSFrame("message") EXCEPT
        !.live = TRUE, !.id = m.id, !.seq = m.seq, !.user = m.user,
        !.name = m.name, !.content = m.content, !.ts = m.ts]

\* A broadcast loop that stops at the first write error.
BroadcastAbort(left, d, failed) == IF failed THEN {} ELSE left \ {d}

\* The connections a broadcast loop still has to write to after the write to d:
\* "if err != nil { // Don't remove client here, handleClient will do cleanup }",
\* the loop goes on whether the write failed or not.
BroadcastRest(left, d, failed) == left \ {d}

\* broadcastToAll, one iteration of the loop over h.clients: conn.WriteJSON.
BroadcastWrite(c, d) ==
    /\ pc[c] = "bcast"
    /\ d \in bcastLeft[c]
    /\ recv' = [recv EXCEPT ![d] = WriteJSON(d, LiveFrame(cur[c].msg))]
    /\ bcastLeft' = [bcastLeft EXCEPT ![c] = BroadcastRest(bcastLeft[c], d, d \in broken)]
    /\ UNCHANGED <<walVars, store, cacheVars, clients, pc, cur, bfVars,
                   drainVars, ghostVars, nextId, crashes, faults, harnessVars, pushLog, delVars,
                   admitVars,
                   sessVars,
                   valVars,
                   authVars,
                   pageVars,
                   recentVars,
                   orderVars,
                   linkVars,
                   muVars>>

\* broadcastToAll returns (RUnlock); sendAck(status = success).
SendAck(c) ==
    /\ pc[c] = "bcast"
    /\ bcastLeft[c] = {}
    /\ acked' = acked \cup {cur[c].msg.id}
    /\ pc' = [pc EXCEPT ![c] = "idle"]
    /\ cur' = [cur EXCEPT ![c] = NoReq]
    /\ UNCHANGED <<walVars, store, cacheVars, clients, bcastLeft, recv, bfVars,
                   drainVars, sendOk, sendErr, doneBefore, midDrainCrash,
                   nextId, crashes, faults, harnessVars, pushLog, delVars,
                   admitVars,
                   sessVars,
                   valVars,
                   authVars,
                   pageVars,
                   recentVars,
                   orderVars,
                   linkVars,
                   muVars>>

\* ----------------------------------------------------------------- delete
ErrMessageNotFound == "message not found"

ErrUnauthorized == "unauthorized to delete this message"

InDelete(c) == pc[c] \in {"del_store", "del_cache", "del_lset", "del_bcast"}

\* handleDeleteMessage up to the authorization check of DeleteMessage:
\* GetByMessageID, then "!isAdmin && msg.UserID != userID".  An error goes to
\* the requester through sendError and the handler returns.
DeleteStart(c, id) ==
    /\ pc[c] = "idle"
    /\ ~AtExpiredSelect(c)
    /\ blocked' = [blocked EXCEPT ![c] = FALSE]
    /\ Len(delLog) + Cardinality({d \in Conns : InDelete(d)}) < MaxDeletes
    /\ LET userID  == ConnUser(c)
           isAdmin == IsAdminUser(userID)
           got     == GetByMessageID(store, id)
           stored  == SelectSeq(Unscoped(store), LAMBDA r : r.id = id)
           call(result) ==
               [id |-> id, user |-> userID, admin |-> isAdmin,
                stored |-> stored # <<>>,
                logged |-> id \in EntryIds(readAllUnsafe(walFile)),
                author |-> IF stored = <<>> THEN NoUser ELSE stored[1].user,
                result |-> result]
           refuse(err) ==
               /\ recv' = [recv EXCEPT ![c] = WriteJSON(c, ErrorFrame(err))]
               /\ delLog' = Append(delLog, call(err))
               /\ UNCHANGED <<pc, cur>>
       IN  IF ~got.found THEN refuse(ErrMessageNotFound)
           ELSE IF ~isAdmin /\ got.row.user # userID THEN refuse(ErrUnauthorized)
           ELSE /\ pc' = [pc EXCEPT ![c] = "del_store"]
                /\ cur' = [cur EXCEPT ![c] =
                             [kind |-> "delete", id |-> id, row |-> got.row,
                              isAdmin |-> isAdmin, idx |-> 0,
                              copy |-> got.row, call |-> call("ok")]]
                /\ UNCHANGED <<recv, delLog>>
    /\ UNCHANGED <<walVars, store, cacheVars, clients, bcastLeft, bfVars,
                   drainVars, ghostVars, nextId, crashes, faults, harnessVars,
                   pushLog, delOk, lastRead, bfDone, bfFrom,
                   admitVars,
                   age, pingPc,
                   valVars,
                   authVars,
                   pageVars,
                   recentVars,
                   orderVars,
                   linkVars,
                   muVars>>

\* DeleteMessage: SoftDeleteMessage(msg.ID, userID, isAdmin).  fault "db": the
\* UPDATE fails, DeleteMessage returns the error.
DeleteStore(c, fault) ==
    /\ pc[c] = "del_store"
    /\ IF fault = "db"
       THEN /\ recv' = [recv EXCEPT ![c] = WriteJSON(c, ErrorFrame("db"))]
            /\ delLog' = Append(delLog, [cur[c].call EXCEPT !.result = "db"])
            /\ pc' = [pc EXCEPT ![c] = "idle"]
            /\ cur' = [cur EXCEPT ![c] = NoReq]
            /\ UNCHANGED store
       ELSE /\ store' = SoftDeleteMessage(store, cur[c].row.seq, ConnUser(c),
                                          cur[c].isAdmin)
            /\ pc' = [pc EXCEPT ![c] = "del_cache"]
            /\ UNCHANGED <<recv, delLog, cur>>
    /\ faults' = FaultCount(fault)
    /\ UNCHANGED <<walVars, cacheVars, clients, bcastLeft, bfVars, drainVars,
                   ghostVars, nextId, crashes, harnessVars, pushLog, delOk,
                   lastRead, bfDone, bfFrom,
                   admitVars,
                   sessVars,
                   valVars,
                   authVars,
                   pageVars,
                   recentVars,
                   orderVars,
                   linkVars,
                   muVars>>

\* MarkMessageAsDeleted, first command: LRANGE global:recent 0 -1 and the
\* search.  With no match it returns nil, DeleteMessage returns nil and the
\* handler takes h.mu.RLock() for broadcastDeleteEvent.
DeleteCacheRead(c) ==
    /\ pc[c] = "del_cache"
    /\ LET results == LRange(cache, 0, -1)
           i       == CacheFind(results, cur[c].id)
       IN  IF i = 0
           THEN /\ delOk' = delOk \cup {cur[c].id}
                /\ delLog' = Append(delLog, cur[c].call)
                /\ pc' = [pc EXCEPT ![c] = "del_bcast"]
                /\ bcastLeft' = [bcastLeft EXCEPT ![c] = clients]
                /\ UNCHANGED cur
           ELSE /\ cur' = [cur EXCEPT ![c].idx = i, ![c].copy = results[i]]
                /\ pc' = [pc EXCEPT ![c] = "del_lset"]
                /\ UNCHANGED <<delOk, delLog, bcastLeft>>
    /\ UNCHANGED <<walVars, store, cacheVars, clients, recv, bfVars, drainVars,
                   ghostVars, nextId, crashes, faults, harnessVars, pushLog,
                   lastRead, bfDone, bfFrom,
                   admitVars,
                   sessVars,
                   valVars,
                   authVars,
                   pageVars,
                   recentVars,
                   orderVars,
                   linkVars,
                   muVars>>

\* MarkMessageAsDeleted, second command: LSET global:recent i updatedData; its
\* error is logged only.  DeleteMessage returns nil.
DeleteCacheSet(c) ==
    /\ pc[c] = "del_lset"
    /\ cache' = LSet(cache, cur[c].idx, Tombstone(cur[c].copy, cur[c].isAdmin))
    /\ delOk' = delOk \cup {cur[c].id}
    /\ delLog' = Append(delLog, cur[c].call)
    /\ pc' = [pc EXCEPT ![c] = "del_bcast"]
    /\ bcastLeft' = [bcastLeft EXCEPT ![c] = clients]
    /\ UNCHANGED <<walVars, store, cacheTasks, clients, cur, recv, bfVars,
                   drainVars, ghostVars, nextId, crashes, faults, harnessVars,
                   pushLog, lastRead, bfDone, bfFrom,
                   admitVars,
                   sessVars,
                   valVars,
                   authVars,
                   pageVars,
                   recentVars,
                   orderVars,
                   linkVars,
                   muVars>>

\* broadcastDeleteEvent, one iteration of the loop over h.clients.
DeleteBroadcastWrite(c, d) ==
    /\ pc[c] = "del_bcast"
    /\ d \in bcastLeft[c]
    /\ recv' = [recv EXCEPT ![d] =
                  WriteJSON(d, DeleteFrame(cur[c].id, cur[c].isAdmin))]
    /\ bcastLeft' = [bcastLeft EXCEPT ![c] = BroadcastRest(bcastLeft[c], d, d \in broken)]
    /\ UNCHANGED <<walVars, store, cacheVars, clients, pc, cur, bfVars,
                   drainVars, ghostVars, nextId, crashes, faults, harnessVars,
                   pushLog, delVars,
                   admitVars,
                   sessVars,
                   valVars,
                   authVars,
                   pageVars,
                   recentVars,
                   orderVars,
                   linkVars,
                   muVars>>

\* broadcastDeleteEvent returns; delete_success goes to the requester.
DeleteDone(c) ==
    /\ pc[c] = "del_bcast"
    /\ bcastLeft[c] = {}
    /\ recv' = [recv EXCEPT ![c] =
                  WriteJSON(c, [WSFrame("delete_success") EXCEPT
                                       !.id = cur[c].id])]
    /\ pc' = [pc EXCEPT ![c] = "idle"]
    /\ cur' = [cur EXCEPT ![c] = NoReq]
    /\ UNCHANGED <<walVars, store, cacheVars, clients, bcastLeft, bfVars,
                   drainVars, ghostVars, nextId, crashes, faults, harnessVars,
                   pushLog, delVars,
                   admitVars,
                   sessVars,
                   valVars,
                   authVars,
                   pageVars,
                   recentVars,
                   orderVars,
                   linkVars,
                   muVars>>

\* ------------------------------------------------------------------ reads
\* MessageService.GetRecentMessages(limit): the cache when it returns
\* anything, else the store, whose result a goroutine pushes into the cache
\* in slice order.
ServiceGetRecentMessages(limit, by) ==
    LET cachedMsgs == CacheRecent(cache, limit)
        messages   == RepoGetRecentMessages(store, limit)
    IN  IF Len(cachedMsgs) > 0
        THEN [msgs |-> cachedMsgs, from |-> "cache", tasks |-> {}]
        ELSE [msgs |-> messages, from |-> "store",
              tasks |-> IF Len(messages) > 0
                        THEN {[by |-> by, msgs |-> messages, stage |-> "lpush"]}
                        ELSE {}]

\* sendInitialMessages, the read: GetRecentMessages(100); the frames are
\* built walking the slice from its end.
BackfillRead(c) ==
    /\ bf[c] = "fetch"
    /\ LET r == ServiceGetRecentMessages(InitialLimit, c)
           isAdmin == IsAdminUser(ConnUser(c))
           rev == Reverse(r.msgs)
       IN  /\ bfMsgs' = [bfMsgs EXCEPT ![c] =
                            [i \in 1..Len(rev) |-> InitialFrame(rev[i], isAdmin)]]
           /\ cacheTasks' = cacheTasks \cup r.tasks
           /\ bfFrom' = [bfFrom EXCEPT ![c] = r.from]
    /\ bf' = [bf EXCEPT ![c] = "send"]
    /\ bfDone' = [bfDone EXCEPT ![c] = delOk]
    /\ UNCHANGED <<walVars, store, cache, connVars, drainVars, ghostVars,
                   nextId, crashes, faults, harnessVars, pushLog, delOk, delLog,
                   lastRead,
                   admitVars,
                   sessVars,
                   valVars,
                   authVars,
                   pageVars,
                   recentVars,
                   orderVars,
                   linkVars,
                   muVars>>

\* sendInitialMessages, one client.conn.WriteJSON, or the end of the loop.
BackfillWrite(c) ==
    /\ bf[c] = "send"
    /\ IF bfMsgs[c] = <<>>
       THEN /\ bf' = [bf EXCEPT ![c] = "done"]
            /\ UNCHANGED <<recv, bfMsgs>>
       ELSE /\ recv' = [recv EXCEPT ![c] = WriteJSON(c, Head(bfMsgs[c]))]
            /\ bfMsgs' = [bfMsgs EXCEPT ![c] = Tail(bfMsgs[c])]
            /\ UNCHANGED bf
    /\ UNCHANGED <<walVars, store, cacheVars, clients, pc, cur, bcastLeft,
                   drainVars, ghostVars, nextId, crashes, faults, harnessVars,
                   pushLog, delVars,
                   admitVars,
                   sessVars,
                   valVars,
                   authVars,
                   pageVars,
                   recentVars,
                   orderVars,
                   linkVars,
                   muVars>>

\* GET /api/messages/before/:id by user u: GetMessagesBefore(id, 50), then
\* filterMessages.
GetBefore(u, beforeID) ==
    /\ lastRead' = [user |-> u, before |-> beforeID, done |-> delOk,
                    out |-> filterMessages(
                                RepoGetMessagesBefore(store, beforeID, PageLimit),
                                IsAdminUser(u))]
    /\ UNCHANGED <<walVars, store, cacheVars, connVars, bfVars, drainVars,
                   ghostVars, nextId, crashes, faults, harnessVars, pushLog,
                   delOk, delLog, bfDone, bfFrom,
                   admitVars,
                   sessVars,
                   valVars,
                   authVars,
                   pageVars,
                   recentVars,
                   orderVars,
                   linkVars,
                   muVars>>

\* MessageService.GetMessagesBefore(beforeID, limit, isAdmin): the call goes
\* to the repository as it is.
ServiceGetMessagesBefore(beforeID, limit) ==
    /\ beforeOut' = [called |-> TRUE, before |-> beforeID, limit |-> limit,
                     out |-> RepoGetMessagesBefore(store, beforeID, limit)]
    /\ UNCHANGED <<walVars, store, cacheVars, connVars, bfVars, drainVars,
                   ghostVars, nextId, crashes, faults, harnessVars, pushLog,
                   delVars, admitVars, sessVars, valVars, authVars,
                   recentVars,
                   orderVars,
                   linkVars,
                   muVars>>

\* -------------------------------------------------------------- admission
\* RateLimiter.IsIPBanned: SISMEMBER banned_ips ip.
IsAnyIPBanned(set, ip) == set # {}

IsIPBanned(set, ip) == ip \in set

\* RateLimiter.CheckLimit, the comparison after INCR: allowed unless
\* count > MaxRequests.
CheckLimitAllowed(count) == ~(count > MaxRequests)

\* RateLimiter.Middleware, the outcome from the three results it looks at:
\* 403 when banned, c.Next() when CheckLimit failed, 429 when not allowed.
FailClosedOutcome(isBanned, allowed, err) ==
    IF isBanned THEN "403"
    ELSE IF err \/ ~allowed THEN "429" ELSE "admitted"

MiddlewareOutcome(isBanned, allowed, err) ==
    IF isBanned THEN "403"
    ELSE IF err THEN "admitted"
    ELSE IF ~allowed THEN "429" ELSE "admitted"

\* The last BanIP / UnbanIP call on ip that returned nil was a BanIP.
LastOpIsBan(ops, ip) ==
    \E i \in 1..Len(ops) :
        /\ ops[i].ip = ip /\ ops[i].op = "ban"
        /\ \A j \in (i + 1)..Len(ops) : ops[j].ip # ip

InMiddleware == {s \in Slots : rq[s].pc # "idle"}

\* The middleware's decision for the request in slot s is recorded and the
\* slot is free again.
Decide(s, n, err, lookupErr, wasBanned, outcome) ==
    /\ httpLog' = Append(httpLog,
           [ip |-> rq[s].ip, win |-> rlWin[rq[s].ip], n |-> n, err |-> err,
            lookupErr |-> lookupErr, outcome |-> outcome,
            wasBanned |-> wasBanned,
            hadCount |-> rlCount[rq[s].ip]])
    /\ rq' = [rq EXCEPT ![s] = NoRequest]

\* A request from address ip enters RateLimiter.Middleware.
HttpStart(s, ip) ==
    /\ rq[s].pc = "idle"
    /\ Len(httpLog) + Cardinality(InMiddleware) < MaxHttp
    /\ rq' = [rq EXCEPT ![s] = [NoRequest EXCEPT !.pc = "ban", !.ip = ip]]
    /\ httpStarted' = [httpStarted EXCEPT ![ip] = @ + 1]
    /\ UNCHANGED <<walVars, store, cacheVars, connVars, bfVars, drainVars,
                   ghostVars, nextId, crashes, faults, harnessVars, pushLog,
                   delVars, rlCount, rlTTL, rlWin, banned, banOps, httpLog,
                   sessVars,
                   valVars,
                   authVars,
                   pageVars,
                   recentVars,
                   orderVars,
                   linkVars,
                   muVars>>

\* Middleware: "if banned, _ := rl.IsIPBanned(clientIP); banned".  fault
\* "redis": SISMEMBER fails, IsIPBanned returns (false, err), err is dropped.
BanCheck(s, fault) ==
    /\ rq[s].pc = "ban"
    /\ LET isBanned == IF fault = "redis" THEN FALSE
                       ELSE IsIPBanned(banned, rq[s].ip)
       IN  IF MiddlewareOutcome(isBanned, TRUE, FALSE) = "403"
           THEN Decide(s, 0, FALSE, FALSE, LastOpIsBan(banOps, rq[s].ip), "403")
           ELSE /\ rq' = [rq EXCEPT ![s].pc = "incr",
                                    ![s].lookupErr = (fault = "redis"),
                                    ![s].wasBanned = LastOpIsBan(banOps, rq[s].ip)]
                /\ UNCHANGED httpLog
    /\ faults' = FaultCount(fault)
    /\ UNCHANGED <<walVars, store, cacheVars, connVars, bfVars, drainVars,
                   ghostVars, nextId, crashes, harnessVars, pushLog, delVars,
                   rlCount, rlTTL, rlWin, banned, banOps, httpStarted,
                   sessVars,
                   valVars,
                   authVars,
                   pageVars,
                   recentVars,
                   orderVars,
                   linkVars,
                   muVars>>

\* CheckLimit: INCR ratelimit:<ip>.  With count = 1 the EXPIRE follows;
\* otherwise CheckLimit returns and the middleware decides.  fault "redis":
\* INCR fails and was not executed; "lost": it was executed and its reply was
\* lost.  Either way CheckLimit returns the error.
RLIncr(s, fault) ==
    /\ rq[s].pc = "incr"
    /\ LET ip        == rq[s].ip
           count     == rlCount[ip] + 1
       IN  /\ rlCount' = IF fault = "redis" THEN rlCount
                         ELSE [rlCount EXCEPT ![ip] = count]
           /\ IF fault # "none"
              THEN Decide(s, 0, TRUE, rq[s].lookupErr, rq[s].wasBanned,
                          MiddlewareOutcome(FALSE, FALSE, TRUE))
              ELSE IF count = 1
              THEN /\ rq' = [rq EXCEPT ![s].pc = "expire"]
                   /\ UNCHANGED httpLog
              ELSE Decide(s, count, FALSE, rq[s].lookupErr, rq[s].wasBanned,
                          MiddlewareOutcome(FALSE, CheckLimitAllowed(count), FALSE))
    /\ faults' = FaultCount(fault)
    /\ UNCHANGED <<walVars, store, cacheVars, connVars, bfVars, drainVars,
                   ghostVars, nextId, crashes, harnessVars, pushLog, delVars,
                   rlTTL, rlWin, banned, banOps, httpStarted,
                   sessVars,
                   valVars,
                   authVars,
                   pageVars,
                   recentVars,
                   orderVars,
                   linkVars,
                   muVars>>

\* CheckLimit with count = 1: EXPIRE ratelimit:<ip> Window, then the
\* comparison.  fault "redis": EXPIRE fails, CheckLimit returns the error.
RLExpire(s, fault) ==
    /\ rq[s].pc = "expire"
    /\ IF fault = "redis"
       THEN /\ Decide(s, 1, TRUE, rq[s].lookupErr, rq[s].wasBanned,
                      MiddlewareOutcome(FALSE, FALSE, TRUE))
            /\ UNCHANGED rlTTL
       ELSE /\ rlTTL' = [rlTTL EXCEPT ![rq[s].ip] = rlCount[rq[s].ip] > 0]
            /\ Decide(s, 1, FALSE, rq[s].lookupErr, rq[s].wasBanned,
                      MiddlewareOutcome(FALSE, CheckLimitAllowed(1), FALSE))
    /\ faults' = FaultCount(fault)
    /\ UNCHANGED <<walVars, store, cacheVars, connVars, bfVars, drainVars,
                   ghostVars, nextId, crashes, harnessVars, pushLog, delVars,
                   rlCount, rlWin, banned, banOps, httpStarted,
                   sessVars,
                   valVars,
                   authVars,
                   pageVars,
                   recentVars,
                   orderVars,
                   linkVars,
                   muVars>>

\* Redis removes a key whose TTL has run out: the window is over.
KeyExpiry(ip) ==
    /\ rlCount[ip] > 0
    /\ rlTTL[ip]
    /\ rlCount' = [rlCount EXCEPT ![ip] = 0]
    /\ rlTTL' = [rlTTL EXCEPT ![ip] = FALSE]
    /\ rlWin' = [rlWin EXCEPT ![ip] = @ + 1]
    /\ UNCHANGED <<walVars, store, cacheVars, connVars, bfVars, drainVars,
                   ghostVars, nextId, crashes, faults, harnessVars, pushLog,
                   delVars, banned, banOps, rq, httpLog, httpStarted,
                   sessVars,
                   valVars,
                   authVars,
                   pageVars,
                   recentVars,
                   orderVars,
                   linkVars,
                   muVars>>

\* RateLimiter.BanIP: SADD banned_ips ip.
BanIP(ip, fault) ==
    /\ Len(banOps) < MaxBanOps
    /\ IF fault = "redis" THEN UNCHANGED <<banned, banOps>>
       ELSE /\ banned' = banned \cup {ip}
            /\ banOps' = Append(banOps, [op |-> "ban", ip |-> ip])
    /\ faults' = FaultCount(fault)
    /\ UNCHANGED <<walVars, store, cacheVars, connVars, bfVars, drainVars,
                   ghostVars, nextId, crashes, harnessVars, pushLog, delVars,
                   rlCount, rlTTL, rlWin, rq, httpLog, httpStarted,
                   sessVars,
                   valVars,
                   authVars,
                   pageVars,
                   recentVars,
                   orderVars,
                   linkVars,
                   muVars>>

\* RateLimiter.UnbanIP: SREM banned_ips ip.
UnbanIP(ip, fault) ==
    /\ Len(banOps) < MaxBanOps
    /\ IF fault = "redis" THEN UNCHANGED <<banned, banOps>>
       ELSE /\ banned' = banned \ {ip}
            /\ banOps' = Append(banOps, [op |-> "unban", ip |-> ip])
    /\ faults' = FaultCount(fault)
    /\ UNCHANGED <<walVars, store, cacheVars, connVars, bfVars, drainVars,
                   ghostVars, nextId, crashes, harnessVars, pushLog, delVars,
                   rlCount, rlTTL, rlWin, rq, httpLog, httpStarted,
                   sessVars,
                   valVars,
                   authVars,
                   pageVars,
                   recentVars,
                   orderVars,
                   linkVars,
                   muVars>>

\* ------------------------------------------------------------- cache tasks
\* CacheMessage in a goroutine: LPUSH of the first message still to push.
CacheLPush(t) ==
    /\ t \in cacheTasks
    /\ t.stage = "lpush"
    /\ cache' = LPush(cache, Head(t.msgs))
    /\ pushLog' = Append(pushLog, Head(t.msgs).id)
    /\ cacheTasks' = (cacheTasks \ {t}) \cup {[t EXCEPT !.stage = "ltrim"]}
    /\ UNCHANGED <<walVars, store, connVars, bfVars, drainVars, ghostVars,
                   nextId, crashes, faults, harnessVars, delVars,
                   admitVars,
                   sessVars,
                   valVars,
                   authVars,
                   pageVars,
                   recentVars,
                   orderVars,
                   linkVars,
                   muVars>>

\* CacheMessage in a goroutine: LTRIM, then the next message or the end.
CacheLTrim(t) ==
    /\ t \in cacheTasks
    /\ t.stage = "ltrim"
    /\ cache' = LTrim(cache)
    /\ cacheTasks' = (cacheTasks \ {t}) \cup
                       (IF Len(t.msgs) > 1
                        THEN {[t EXCEPT !.msgs = Tail(t.msgs),
                                        !.stage = "lpush"]}
                        ELSE {})
    /\ UNCHANGED <<walVars, store, connVars, bfVars, drainVars, ghostVars,
                   nextId, crashes, faults, harnessVars, pushLog, delVars,
                   admitVars,
                   sessVars,
                   valVars,
                   authVars,
                   pageVars,
                   recentVars,
                   orderVars,
                   linkVars,
                   muVars>>

\* ----------------------------------------------------------- batch writer
\* processBatch steps 1-2: GetAllEntries; an empty result ends the cycle.
DrainSnapshot ==
    /\ drainPc = "idle"
    /\ readAllUnsafe(walFile) # <<>>
    /\ drainBatch' = readAllUnsafe(walFile)
    /\ drainPc' = "insert"
    /\ UNCHANGED <<walVars, store, cacheVars, connVars, bfVars, drainLast,
                   ghostVars, nextId, crashes, faults, harnessVars, pushLog, delVars,
                   admitVars,
                   sessVars,
                   valVars,
                   authVars,
                   pageVars,
                   recentVars,
                   orderVars,
                   linkVars,
                   muVars>>

\* processBatch steps 3-4: convert and BatchInsert; an error ends the cycle.
\* fault "db": the database is unreachable.
DrainInsert(fault) ==
    /\ drainPc = "insert"
    /\ LET r == BatchInsert(store, ToMessages(drainBatch))
       IN  IF fault = "db"
           THEN /\ drainPc' = "idle"
                /\ drainLast' = "insert_fault"
                /\ UNCHANGED <<store, drainBatch>>
           ELSE IF r.err
           THEN /\ drainPc' = "idle"
                /\ drainLast' = "insert_dup"
                /\ UNCHANGED <<store, drainBatch>>
           ELSE /\ store' = r.rows
                /\ drainPc' = "cleanup"
                /\ UNCHANGED <<drainLast, drainBatch>>
    /\ faults' = FaultCount(fault)
    /\ UNCHANGED <<walVars, cacheVars, connVars, bfVars, ghostVars, nextId,
                   crashes, harnessVars, pushLog, delVars,
                   admitVars,
                   sessVars,
                   valVars,
                   authVars,
                   pageVars,
                   recentVars,
                   orderVars,
                   linkVars,
                   muVars>>

\* processBatch step 5: s.wal.Cleanup(messageIDs).
DrainCleanup(fault, kept) ==
    /\ drainPc = "cleanup"
    /\ fault = "tempwrite" =>
           kept < Len(RemainingEntries(walFile, EntryIds(drainBatch)))
    /\ fault # "tempwrite" => kept = 0
    /\ LET r == Cleanup(walFile, walTorn, walHandle, EntryIds(drainBatch),
                        fault, kept)
       IN  /\ walFile' = r.file
           /\ walTorn' = r.torn
           /\ walHandle' = r.handle
           /\ drainLast' = IF r.err THEN "cleanup_err" ELSE "ok"
    /\ drainPc' = "idle"
    /\ drainBatch' = <<>>
    /\ faults' = FaultCount(fault)
    /\ UNCHANGED <<store, cacheVars, connVars, bfVars, ghostVars, nextId,
                   crashes, harnessVars, pushLog, delVars,
                   admitVars,
                   sessVars,
                   valVars,
                   authVars,
                   pageVars,
                   recentVars,
                   orderVars,
                   linkVars,
                   muVars>>

\* ------------------------------------------------------------------ crash
\* The process dies and is started again (main): every goroutine and every
\* connection is gone, NewWAL opens the file again, the batch writer starts
\* idle.  The files, the database and Redis keep their contents.  effect says
\* what a WAL.Write that was running left in the file: "none", "partial" (an
\* unterminated prefix of its line) or "full" (the whole line, not yet acked).
Crash(c, effect) ==
    /\ crashes < MaxCrashes
    /\ effect # "none" => (pc[c] = "wal" /\ walHandle = "open")
    /\ walFile' = IF effect = "full"
                  THEN WriteString(walFile, walTorn,
                           WALEntry(cur[c].msg.id, cur[c].msg.user,
                                    cur[c].msg.content, cur[c].msg.ts))
                  ELSE walFile
    /\ appendLog' = IF effect = "full" THEN Append(appendLog, cur[c].msg.id)
                    ELSE appendLog
    /\ walTorn' = IF effect = "full" THEN FALSE
                  ELSE IF effect = "partial" THEN TRUE ELSE walTorn
    /\ walHandle' = "open"
    /\ cacheTasks' = {}
    /\ clients' = {}
    /\ pc' = [d \in Conns |-> "off"]
    /\ cur' = [d \in Conns |-> NoReq]
    /\ bcastLeft' = [d \in Conns |-> {}]
    /\ recv' = [d \in Conns |-> <<>>]
    /\ bf' = [d \in Conns |-> "none"]
    /\ bfMsgs' = [d \in Conns |-> <<>>]
    /\ drainPc' = "idle"
    /\ drainBatch' = <<>>
    /\ crashes' = crashes + 1
    /\ rq' = [s \in Slots |-> NoRequest]
    /\ age' = [d \in Conns |-> 0]
    /\ blocked' = [d \in Conns |-> FALSE]
    /\ pingPc' = [d \in Conns |-> "off"]
    /\ midDrainCrash' = (midDrainCrash \/ drainPc = "cleanup")
    /\ broken' = {}
    /\ walMu' = NoTask
    /\ walTask' = [t \in WalTasks |-> NoCall]
    /\ UNCHANGED <<store, cache, drainLast, sendOk, sendErr, acked, doneBefore,
                   nextId, faults, harnessVars, pushLog, delVars,
                   rlCount, rlTTL, rlWin, banned, banOps, httpLog,
                   httpStarted,
                   valVars,
                   authVars,
                   pageVars,
                   recentVars,
                   walCalls>>

\* ------------------------------------------------------------ WAL harness
\* wal_test.go: w.Write(entry) with a fresh MessageID.
TestWrite ==
    /\ nextId <= MaxMsgs
    /\ LET e == WALEntry(nextId, "u1", "hi", nextId)
           r == Write(walFile, walTorn, walHandle, e, "none")
       IN  /\ walFile' = r.file
           /\ walTorn' = r.torn
           /\ walWritten' = IF r.err THEN walWritten ELSE Append(walWritten, e)
           /\ walLastErr' = (walLastErr \/ r.err)
    /\ nextId' = nextId + 1
    /\ UNCHANGED <<walHandle, store, cacheVars, connVars, bfVars, drainVars,
                   ghostVars, crashes, faults, walCleanLog, recentOut,
                   pushLog, delVars,
                   admitVars,
                   sessVars,
                   valVars,
                   authVars,
                   pageVars,
                   recentVars,
                   orderVars,
                   linkVars,
                   muVars>>

\* wal_test.go: w.Cleanup(persistedIDs).
TestCleanup(persistedIDs) ==
    /\ Len(walCleanLog) < MaxCleanups
    /\ LET r == Cleanup(walFile, walTorn, walHandle, persistedIDs, "none", 0)
       IN  /\ walFile' = r.file
           /\ walTorn' = r.torn
           /\ walHandle' = r.handle
           /\ walCleanLog' = IF r.err THEN walCleanLog
                             ELSE Append(walCleanLog,
                                         [ids |-> persistedIDs,
                                          at |-> Len(walWritten)])
    /\ UNCHANGED <<store, cacheVars, connVars, bfVars, drainVars, ghostVars,
                   nextId, crashes, faults, walWritten, walLastErr,
                   recentOut, pushLog, delVars,
                   admitVars,
                   sessVars,
                   valVars,
                   authVars,
                   pageVars,
                   recentVars,
                   orderVars,
                   linkVars,
                   muVars>>

NextWAL ==
    \/ TestWrite
    \/ \E ids \in SUBSET MsgIds : TestCleanup(ids)

SpecWAL == Init /\ [][NextWAL]_vars

\* C4 -- Log compaction correctness: after any alternation of successful
\* Write and Cleanup calls, ReadAll returns exactly the written entries that no
\* later Cleanup named, in append order, and no Write has failed.
WrittenIndexes == {i \in 1..Len(walWritten) :
                      \A k \in 1..Len(walCleanLog) :
                          ~(walWritten[i].id \in walCleanLog[k].ids
                            /\ walCleanLog[k].at >= i)}

RECURSIVE PickIndexes(_, _, _)
PickIndexes(s, keep, i) ==
    IF i > Len(s) THEN <<>>
    ELSE (IF i \in keep THEN <<s[i]>> ELSE <<>>) \o PickIndexes(s, keep, i + 1)

C4_CompactionCorrect ==
    /\ readAllUnsafe(walFile) = PickIndexes(walWritten, WrittenIndexes, 1)
    /\ ~walLastErr

\* Two Cleanup rounds with a Write after each; something was removed,
\* something written before a Cleanup survived it, and the last entry was
\* written after the last Cleanup.
C4_Witness ==
    /\ Len(walCleanLog) = 2
    /\ walCleanLog[1].at < walCleanLog[2].at
    /\ walCleanLog[2].at < Len(walWritten)
    /\ Len(readAllUnsafe(walFile)) = 2
    /\ readAllUnsafe(walFile)[1].id <= walCleanLog[2].at
    /\ Len(walWritten) = 3

CacheSteps == \E t \in cacheTasks : CacheLPush(t) \/ CacheLTrim(t)

\* ---------------------------------------------------------- cache harness
\* A caller starts CacheMessage(msg) with a fresh message while earlier calls
\* may still be between their LPUSH and their LTRIM.
TestPush ==
    /\ recentOut.k = 0
    /\ Len(pushLog) < MaxPushes
    /\ Cardinality(cacheTasks) < MaxPushers
    /\ \A t \in cacheTasks : t.stage # "lpush"
    /\ LET n == Len(pushLog) + 1
       IN  cacheTasks' = cacheTasks \cup
               {[by |-> "test", msgs |-> <<Message(n, "u1", "u1", "hi", n)>>,
                 stage |-> "lpush"]}
    /\ UNCHANGED <<walVars, store, cache, connVars, bfVars, drainVars, ghostVars,
                   nextId, crashes, faults, harnessVars, pushLog, delVars,
                   admitVars,
                   sessVars,
                   valVars,
                   authVars,
                   pageVars,
                   recentVars,
                   orderVars,
                   linkVars,
                   muVars>>

\* The limits GetRecentMessages is called with: 5 by the service test, 100 by
\* sendInitialMessages, and the values next to them.
RecentLimits == {1, 5, CacheLimit - 1, CacheLimit, CacheLimit + 1}

\* A caller runs RedisMessageBroker.GetRecentMessages(k).
TestRecent(k) ==
    /\ recentOut.k = 0
    /\ recentOut' = [k |-> k, msgs |-> CacheRecent(cache, k),
                     pushed |-> pushLog, quiet |-> (cacheTasks = {})]
    /\ UNCHANGED <<walVars, store, cacheVars, connVars, bfVars, drainVars,
                   ghostVars, nextId, crashes, faults, walWritten, walCleanLog,
                   walLastErr, pushLog, delVars,
                   admitVars,
                   sessVars,
                   valVars,
                   authVars,
                   pageVars,
                   recentVars,
                   orderVars,
                   linkVars,
                   muVars>>

NextCache ==
    \/ TestPush
    \/ CacheSteps
    \/ \E k \in RecentLimits : TestRecent(k)

SpecCache == Init /\ [][NextCache]_vars

MsgIdSeq(msgs) == [i \in 1..Len(msgs) |-> msgs[i].id]

\* The last CacheLimit ids pushed, newest first.
LastPushed(log) == Prefix(Reverse(log), CacheLimit)

\* C8 -- Cache bound: once every CacheMessage call has returned, the cache
\* holds at most CacheLimit messages, exactly the last CacheLimit pushed, newest
\* first; GetRecentMessages(k) returns the first k of that sequence (for a k up
\* to CacheLimit also while pushes are running).
C8_CacheBound ==
    /\ cacheTasks = {} =>
           /\ Len(cache) <= CacheLimit
           /\ MsgIdSeq(cache) = LastPushed(pushLog)
    /\ (recentOut.k > 0 /\ (recentOut.quiet \/ recentOut.k <= CacheLimit)) =>
           MsgIdSeq(recentOut.msgs) = Prefix(LastPushed(recentOut.pushed), recentOut.k)

\* More than CacheLimit messages were pushed, a read of CacheLimit messages ran
\* while a push was between LPUSH and LTRIM, and every push has returned since.
C8_Witness ==
    /\ cacheTasks = {}
    /\ Len(cache) = CacheLimit
    /\ Len(pushLog) > CacheLimit
    /\ recentOut.k = CacheLimit
    /\ ~recentOut.quiet
    /\ Len(recentOut.pushed) > CacheLimit
    /\ Len(recentOut.msgs) = CacheLimit

\* --------------------------------------------------------------- pipeline
WriteFaults == {"write0", "partial", "sync"}

CleanupFaults == {"read", "create", "tempwrite", "rename", "reopen"}

\* The connections that take part in the durability pipeline.
PipeConns == {"c1"}

SendSteps(c) ==
    \/ \E content \in Contents : SendStart(c, content)
    \/ \E fault \in FaultChoices(WriteFaults) : WalWrite(c, fault)
    \/ \E d \in Conns : BroadcastWrite(c, d)
    \/ SendAck(c)

DrainSteps ==
    \/ DrainSnapshot
    \/ \E fault \in FaultChoices({"db"}) : DrainInsert(fault)
    \/ \E fault \in FaultChoices(CleanupFaults), kept \in 0..MaxMsgs :
           DrainCleanup(fault, kept)

CrashSteps == \E c \in Conns, effect \in {"none", "partial", "full"} : Crash(c, effect)

NextPipe ==
    \/ \E c \in PipeConns : Connect(c) \/ Disconnect(c) \/ SessionEnd(c) \/ SendSteps(c)
    \/ CacheSteps
    \/ DrainSteps
    \/ CrashSteps

SpecPipe == Init /\ [][NextPipe]_vars

\* The pipeline with no I/O fault: sends, the batch writer and one restart.
\* The batch writer's ticker fires for as long as the process runs.
NextDurable ==
    \/ \E c \in PipeConns :
           \/ Connect(c)
           \/ \E content \in Contents : SendStart(c, content)
           \/ WalWrite(c, "none")
           \/ \E d \in Conns : BroadcastWrite(c, d)
           \/ SendAck(c)
    \/ CacheSteps
    \/ DrainSnapshot
    \/ DrainInsert("none")
    \/ DrainCleanup("none", 0)
    \/ CrashSteps

DrainTick == DrainSnapshot \/ DrainInsert("none") \/ DrainCleanup("none", 0)

FairSpecDurable == Init /\ [][NextDurable]_vars /\ WF_vars(DrainTick)

Sent == SeqToSet(sendOk)

Logged == EntryIds(readAllUnsafe(walFile))

\* C1 -- Durability: every message whose SendMessage returned success is
\* eventually a row of the long-term store, across a crash and restart.
C1_EventuallyStored ==
    \A m \in MsgIds : (m \in Sent) ~> (m \in StoreIds(store))

\* C1, "exactly once": no two rows of the store carry the same MessageID.
C1_StoredOnce ==
    \A i, j \in 1..Len(store) : store[i].id = store[j].id => i = j

\* C2 -- Log-or-store: every message whose SendMessage returned success is
\* readable from the append log or is a row of the long-term store.
C2_LoggedOrStored ==
    \A m \in Sent : m \in Logged \cup StoreIds(store)

\* C3 -- Crash between insert and compaction: once the process has crashed
\* after BatchInsert succeeded and before Cleanup ran, and nothing else has
\* failed, no later BatchInsert is refused as a duplicate.
C3_ReinsertIsNoOp ==
    (midDrainCrash /\ faults = 0) => drainLast # "insert_dup"

\* C5 -- Durability error: a message whose wal.Write failed is never a row of
\* the store, never in the cache and never delivered to a session.
C5_FailedSendUnobserved ==
    \A m \in sendErr :
        /\ m \notin StoreIds(store)
        /\ \A i \in 1..Len(cache) : cache[i].id # m
        /\ \A d \in Conns : \A i \in 1..Len(recv[d]) : recv[d][i].id # m

\* ----------------------------------------------------------------- delete
\* The state after u1 sent message 1, u2 sent message 2, both were
\* acknowledged, the batch writer drained them and every session left; the
\* cache holds both pushes, or holds nothing because the process was
\* restarted before the cache goroutines ran.  u1 and the moderator hold the
\* tokens of their logins; u2 has to log in again.
StoredRow(id, user) ==
    [Message(id, user, "", EscapeString("<b>"), id) EXCEPT !.seq = id]

InitStored ==
    /\ walFile = <<>>
    /\ walTorn = FALSE
    /\ walHandle = "open"
    /\ store = <<StoredRow(1, "u1"), StoredRow(2, "u2")>>
    /\ \E cached \in BOOLEAN :
           /\ cache = IF cached
                      THEN <<Message(2, "u2", "u2", EscapeString("<b>"), 2),
                             Message(1, "u1", "u1", EscapeString("<b>"), 1)>>
                      ELSE <<>>
           /\ pushLog = IF cached THEN <<1, 2>> ELSE <<>>
           /\ crashes = IF cached THEN 0 ELSE 1
    /\ cacheTasks = {}
    /\ clients = {}
    /\ pc = [c \in Conns |-> "off"]
    /\ cur = [c \in Conns |-> NoReq]
    /\ bcastLeft = [c \in Conns |-> {}]
    /\ recv = [c \in Conns |-> <<>>]
    /\ bf = [c \in Conns |-> "none"]
    /\ bfMsgs = [c \in Conns |-> <<>>]
    /\ drainPc = "idle"
    /\ drainBatch = <<>>
    /\ drainLast = "ok"
    /\ sendOk = <<1, 2>>
    /\ doneBefore = [m \in MsgIds |-> IF m = 2 THEN {1} ELSE {}]
    /\ midDrainCrash = FALSE
    /\ sendErr = {}
    /\ acked = {1, 2}
    /\ nextId = 3
    /\ faults = 0
    /\ walWritten = <<>>
    /\ walCleanLog = <<>>
    /\ walLastErr = FALSE
    /\ recentOut = [k |-> 0, msgs |-> <<>>, pushed |-> <<>>, quiet |-> TRUE]
    /\ delOk = {}
    /\ delLog = <<>>
    /\ lastRead = [user |-> NoUser, before |-> 0, out |-> <<>>, done |-> {}]
    /\ bfDone = [c \in Conns |-> {}]
    /\ bfFrom = [c \in Conns |-> "none"]
    /\ rlCount = [a \in Addrs |-> 0]
    /\ rlTTL = [a \in Addrs |-> FALSE]
    /\ rlWin = [a \in Addrs |-> 0]
    /\ banned = {}
    /\ banOps = <<>>
    /\ rq = [s \in Slots |-> NoRequest]
    /\ httpLog = <<>>
    /\ httpStarted = [a \in Addrs |-> 0]
    /\ age = [c \in Conns |-> 0]
    /\ blocked = [c \in Conns |-> FALSE]
    /\ pingPc = [c \in Conns |-> "off"]
    /\ sendCalls = <<>>
    /\ tokens = [u \in Users |-> IF u = "u2" THEN "none" ELSE "valid"]
    /\ softDeleted = {}
    /\ lateSessions = {}
    /\ beforeOut = [called |-> FALSE, before |-> 0, limit |-> 0, out |-> <<>>]
    /\ recentCalls = <<>>
    /\ broken = {}
    /\ walMu = NoTask
    /\ walTask = [t \in WalTasks |-> NoCall]
    /\ walCalls = <<>>
    /\ appendLog = <<1, 2>>

DeleteSteps(c) ==
    \/ \E id \in MsgIds : DeleteStart(c, id)
    \/ DeleteStore(c, "none")
    \/ DeleteCacheRead(c)
    \/ DeleteCacheSet(c)
    \/ \E d \in Conns : DeleteBroadcastWrite(c, d)
    \/ DeleteDone(c)

\* The session of u1 (author of message 1, a stranger to message 2) and the
\* session of a moderator connect and delete.
DelConns == {"c1", "c3"}

NextDelete == \E c \in DelConns : Connect(c) \/ DeleteSteps(c)

SpecDelete == InitStored /\ [][NextDelete]_vars

\* A moderator (c3) deletes; a member (c1) connects and receives the initial
\* messages; one GET /api/messages/before is made by any user.
NextRead ==
    \/ Connect("c3")
    \/ DeleteSteps("c3")
    \/ Connect("c1")
    \/ BackfillRead("c1")
    \/ BackfillWrite("c1")
    \/ CacheSteps
    \/ \E u \in Users, beforeID \in 1..(MaxMsgs + 1) :
           lastRead.user = NoUser /\ GetBefore(u, beforeID)

SpecRead == InitStored /\ [][NextRead]_vars

RowOf(id) == store[CHOOSE i \in 1..Len(store) : store[i].id = id]

\* What a read must show of the tombstoned row r: the placeholder to a
\* member, the original content to a moderator, deleted = true to both.
ShownAsDeleted(content, deleted, r, isAdmin) ==
    /\ deleted
    /\ content = IF isAdmin THEN r.content ELSE Placeholder(r.byAdmin)

\* C9 -- Tombstone visibility: a read made after DeleteMessage(id) returned
\* nil shows the message as deleted (GET /api/messages/before, and the
\* initial messages a session receives), and does not leave the message out.
C9_TombstoneVisible ==
    /\ \A id \in lastRead.done :
           RowOf(id).seq < lastRead.before =>
               \E j \in 1..Len(lastRead.out) :
                   /\ lastRead.out[j].id = id
                   /\ ShownAsDeleted(lastRead.out[j].content,
                                     lastRead.out[j].deleted, RowOf(id),
                                     IsAdminUser(lastRead.user))
                   /\ IsAdminUser(lastRead.user) =>
                          lastRead.out[j].deletedBy = RowOf(id).deletedBy
    /\ \A d \in Conns : \A i \in 1..Len(recv[d]) :
           (recv[d][i].type = "message" /\ ~recv[d][i].live
                /\ recv[d][i].id \in bfDone[d]) =>
               ShownAsDeleted(recv[d][i].content, recv[d][i].deleted,
                              RowOf(recv[d][i].id), IsAdminUser(ConnUser(d)))
    /\ \A d \in Conns :
           (bf[d] = "done" /\ bfFrom[d] = "store") =>
               \A id \in bfDone[d] : \E i \in 1..Len(recv[d]) :
                   recv[d][i].type = "message" /\ recv[d][i].id = id

\* C10 -- Delete authorization: a DeleteMessage call on a stored message
\* returns nil exactly when the requester is a moderator or the author, and
\* ErrUnauthorized otherwise; a message_deleted event is only sent for a call
\* that returned nil; the row of a successful call carries the requester as
\* deleter and the requester's role as the deleted-by-moderator flag.
C10_DeleteAuthorization ==
    /\ \A k \in 1..Len(delLog) :
           delLog[k].stored =>
               /\ (delLog[k].result = "ok") <=>
                      (delLog[k].admin \/ delLog[k].user = delLog[k].author)
               /\ delLog[k].result # "ok" => delLog[k].result = ErrUnauthorized
    /\ \A d \in Conns : \A i \in 1..Len(recv[d]) :
           recv[d][i].type = "message_deleted" => recv[d][i].id \in delOk
    /\ \A k \in 1..Len(delLog) :
           delLog[k].result = "ok" =>
               /\ RowOf(delLog[k].id).deleted
               /\ RowOf(delLog[k].id).deletedBy = delLog[k].user
               /\ RowOf(delLog[k].id).byAdmin = delLog[k].admin

\* C10 on calls that find the message not yet deleted: the authorization rule
\* as the code applies it.
C10_FirstDeleteAuthorized ==
    \A k \in 1..Len(delLog) :
        (delLog[k].stored /\ delLog[k].result # ErrMessageNotFound) =>
            /\ (delLog[k].result = "ok") <=>
                   (delLog[k].admin \/ delLog[k].user = delLog[k].author)
            /\ delLog[k].result # "ok" => delLog[k].result = ErrUnauthorized

\* -------------------------------------------------------------- broadcast
\* Sessions that connect, send concurrently and disconnect; every WAL write
\* succeeds.
BcastConns == {"c1", "c2"}

NextBroadcast ==
    \E c \in BcastConns :
        \/ Connect(c)
        \/ Disconnect(c)
        \/ SessionEnd(c)
        \/ \E content \in Contents : SendStart(c, content)
        \/ WalWrite(c, "none")
        \/ \E d \in Conns : BroadcastWrite(c, d)
        \/ SendAck(c)

SpecBroadcast == Init /\ [][NextBroadcast]_vars

IsLive(f) == f.type = "message" /\ f.live

Pos(s, x) == CHOOSE i \in 1..Len(s) : s[i] = x

\* C6 -- Broadcast order: when the handler of send A had returned before the
\* handler of send B began, every session that has received both live message
\* events received A's before B's.
C6_BroadcastOrder ==
    \A d \in Conns : \A i, j \in 1..Len(recv[d]) :
        (IsLive(recv[d][i]) /\ IsLive(recv[d][j])
            /\ recv[d][i].id \in doneBefore[recv[d][j].id]) => i < j

\* A session holds the live events of two sends made one after the other by
\* different sessions.
C6_Witness ==
    \E d \in Conns : \E i, j \in 1..Len(recv[d]) :
        /\ IsLive(recv[d][i]) /\ IsLive(recv[d][j])
        /\ recv[d][i].id \in doneBefore[recv[d][j].id]
        /\ recv[d][i].id \in acked /\ recv[d][j].id \in acked
        /\ recv[d][i].user # recv[d][j].user
        /\ Cardinality(clients) >= 2

\* C7 -- Concurrent sends: each session receives the live message events in
\* the order in which the wal.Write calls returned.
C7_DeliveryFollowsWalOrder ==
    \A d \in Conns : \A i, j \in 1..Len(recv[d]) :
        (IsLive(recv[d][i]) /\ IsLive(recv[d][j]) /\ i < j)
            => Pos(sendOk, recv[d][i].id) < Pos(sendOk, recv[d][j].id)

\* C7, second half: two sessions that both received the same two live events
\* received them in the same relative order.
C7_SameRelativeOrder ==
    \A d, e \in Conns : \A i, j \in 1..Len(recv[d]) : \A k, l \in 1..Len(recv[e]) :
        (IsLive(recv[d][i]) /\ IsLive(recv[d][j]) /\ i < j
            /\ IsLive(recv[e][k]) /\ IsLive(recv[e][l])
            /\ recv[e][k].id = recv[d][i].id /\ recv[e][l].id = recv[d][j].id)
            => k < l

\* ------------------------------------------------------ admission layer
\* Requests of two addresses through RateLimiter.Middleware, ban-list
\* administration, key expiry in Redis, one Redis fault and one restart.
NextAdmit ==
    \/ \E s \in Slots, ip \in Addrs : HttpStart(s, ip)
    \/ \E s \in Slots, fault \in FaultChoices({"redis"}) : BanCheck(s, fault)
    \/ \E s \in Slots, fault \in FaultChoices({"redis", "lost"}) : RLIncr(s, fault)
    \/ \E s \in Slots, fault \in FaultChoices({"redis"}) : RLExpire(s, fault)
    \/ \E ip \in Addrs : KeyExpiry(ip)
    \/ \E ip \in Addrs, fault \in FaultChoices({"redis"}) : BanIP(ip, fault)
    \/ \E ip \in Addrs, fault \in FaultChoices({"redis"}) : UnbanIP(ip, fault)
    \/ Crash("c1", "none")

SpecAdmit == Init /\ [][NextAdmit]_vars

\* The logged decisions of the requests that CheckLimit counted.
Counted == {i \in 1..Len(httpLog) : httpLog[i].outcome # "403" /\ ~httpLog[i].err}

\* In a window the requests counted 1..MaxRequests are admitted and the later
\* ones get 429; no two requests of a window share a count; requests of
\* another address never add to this address's counter.
C11_CountedAdmission ==
    /\ \A i \in Counted :
           httpLog[i].outcome = (IF httpLog[i].n <= MaxRequests THEN "admitted" ELSE "429")
    /\ \A i, j \in Counted :
           (i # j /\ httpLog[i].ip = httpLog[j].ip /\ httpLog[i].win = httpLog[j].win)
               => httpLog[i].n # httpLog[j].n
    /\ \A a \in Addrs : rlCount[a] <= httpStarted[a]

\* The window of every counter ends: a counter key that exists carries the
\* window TTL, unless a request stands between its INCR and its EXPIRE.
WindowEnds ==
    \A a \in Addrs :
        (rlCount[a] > 0 /\ ~\E s \in Slots : rq[s].pc = "expire" /\ rq[s].ip = a)
            => rlTTL[a]

\* C11: for a fixed address and window exactly the first MaxRequests requests
\* are admitted and every further one is refused with 429, also when
\* interleaved; the window ends by its TTL, after which admission resumes; the
\* requests of another address never change the outcome for this address.
C11_RateLimit == C11_CountedAdmission /\ WindowEnds

\* C12: whenever CheckLimit returns an error the request is admitted to the
\* next handler, however many requests the address has already made.
C12_FailOpen ==
    \A i \in 1..Len(httpLog) : httpLog[i].err => httpLog[i].outcome = "admitted"

\* A request was admitted on a CheckLimit error although its address had
\* already used up the window.
C12_Witness ==
    \E i \in 1..Len(httpLog) :
        /\ httpLog[i].err
        /\ httpLog[i].outcome = "admitted"
        /\ httpLog[i].hadCount >= MaxRequests

\* IsIPBanned answers by the history of the successful BanIP / UnbanIP calls.
BanListIsHistory == \A a \in Addrs : IsIPBanned(banned, a) <=> LastOpIsBan(banOps, a)

\* C13 as stated: between a successful BanIP and the next successful UnbanIP
\* every request of the address is refused with 403; an address that is not
\* banned is never refused with 403; IsIPBanned reflects exactly the BanIP /
\* UnbanIP history.
C13_BanCheckEveryRequest ==
    /\ \A i \in 1..Len(httpLog) : httpLog[i].wasBanned <=> httpLog[i].outcome = "403"
    /\ BanListIsHistory

\* C13, amended: every request whose ban-list lookup succeeded while its
\* address was banned is refused with 403; an address that is not banned is
\* never refused with 403; IsIPBanned reflects exactly the BanIP / UnbanIP
\* history.
C13_BanCheck ==
    /\ \A i \in 1..Len(httpLog) :
           /\ (httpLog[i].wasBanned /\ ~httpLog[i].lookupErr) => httpLog[i].outcome = "403"
           /\ httpLog[i].outcome = "403" => httpLog[i].wasBanned
    /\ BanListIsHistory

\* A banned address was refused with 403 and, after UnbanIP, admitted again.
C13_Witness ==
    \E i, j \in 1..Len(httpLog) :
        /\ i < j
        /\ httpLog[i].ip = httpLog[j].ip
        /\ httpLog[i].wasBanned /\ httpLog[i].outcome = "403"
        /\ ~httpLog[j].wasBanned /\ httpLog[j].outcome = "admitted"
        /\ ~IsIPBanned(banned, httpLog[i].ip)


\* --------------------------------------------------- session lifecycle
\* The connections whose lifecycle is followed.
SessConns == {"c1", "c2"}

\* The requests a session's reader handles between its reads.
SessionSends(c) ==
    \/ \E content \in Contents : SendStart(c, content)
    \/ WalWrite(c, "none")
    \/ \E d \in Conns : BroadcastWrite(c, d)
    \/ SendAck(c)

\* Sessions from the upgrade to removeClient, with time passing while the
\* readers wait for a frame.
NextSession ==
    \/ \E c \in SessConns :
           \/ Connect(c)
           \/ BlockRead(c)
           \/ Disconnect(c)
           \/ SessionExpire(c)
           \/ SessionEnd(c)
    \/ SessionSends("c1")
    \/ Tick

SpecSession == Init /\ [][NextSession]_vars

\* The scheduler runs every goroutine that can take a step; the peer owes
\* nothing: no frame, no disconnect.
FairSpecSession ==
    /\ SpecSession
    /\ \A c \in SessConns :
           /\ WF_vars(BlockRead(c))
           /\ WF_vars(SessionExpire(c))
           /\ WF_vars(RemoveClient(c))
           /\ WF_vars(PingStop(c))
    /\ WF_vars(WalWrite("c1", "none") \/ SendAck("c1")
               \/ \E d \in Conns : BroadcastWrite("c1", d))

\* The session_expired event was written to c, and the close frame behind it.
ExpiredEventSent(c) ==
    \E i \in 1..(Len(recv[c]) - 1) :
        recv[c][i].type = "session_expired" /\ recv[c][i + 1].type = "close"

\* C14: every session is actively closed by the server with a session_expired
\* event followed by a close frame no later than maxSessionLifetime after it
\* was opened, also when its client sends no request and only answers the
\* heartbeats.
C14_SessionLifetime ==
    \A c \in SessConns :
        (c \in clients /\ age[c] > LifetimeTicks) => ExpiredEventSent(c)

\* A session whose reader comes back to the select after the timer has fired
\* gets the event with the close frame behind it, and its reader loop ends.
C14_ExpiryAtSelect ==
    \A c \in SessConns :
        \A i \in 1..Len(recv[c]) :
            recv[c][i].type = "session_expired"
                => /\ i < Len(recv[c]) /\ recv[c][i + 1].type = "close"
                   /\ pc[c] \in {"closing", "off"}

\* The registry holds exactly the sessions between upgrade and removeClient,
\* and a running broadcast targets registered sessions only.
RegistryIsLiveSessions ==
    /\ \A c \in Conns : c \in clients <=> pc[c] # "off"
    /\ \A c \in Conns : bcastLeft[c] \subseteq clients

\* A session whose reader loop has ended is removed and its heartbeat stops.
C15_EndedSessionRemoved ==
    \A c \in SessConns :
        (pc[c] = "closing") ~> (c \notin clients /\ pingPc[c] = "off")

\* C15: a session is in the registry from its upgrade until its reader loop
\* ends; when the client disconnects, the heartbeat is missed or the lifetime
\* timer fires, the session is eventually removed from the registry, its
\* connection closed and its heartbeat goroutine ended, and no later broadcast
\* targets it.
C15_SessionLifecycle ==
    /\ []RegistryIsLiveSessions
    /\ \A c \in SessConns :
           (c \in clients /\ (pc[c] = "closing" \/ TimerFired(c)))
               ~> (c \notin clients /\ pingPc[c] = "off")

\* -------------------------------------------------------- send validation
\* A session sends contents of every length class; the cache goroutines run.
NextValidate ==
    \/ Connect("c1")
    \/ \E content \in AnyContents : SendStart("c1", content)
    \/ WalWrite("c1", "none")
    \/ \E d \in Conns : BroadcastWrite("c1", d)
    \/ SendAck("c1")
    \/ CacheSteps

SpecValidate == Init /\ [][NextValidate]_vars

ValidLength(content) ==
    LET n == RuneCountInString(content) IN n >= 1 /\ n <= MaxContentRunes

\* The contents that went past the validation, as the log, the cache and the
\* frames carry them.
AcceptedContents ==
    {EscapeString(sendCalls[i].content) : i \in (1..Len(sendCalls)) \ Rejected}

\* Every content in the log, in the cache, in a cache goroutine's hands or in
\* a live broadcast frame.
ObservedContents ==
    {e.content : e \in SeqToSet(readAllUnsafe(walFile))}
        \cup {m.content : m \in SeqToSet(cache)}
        \cup UNION {{m.content : m \in SeqToSet(t.msgs)} : t \in cacheTasks}
        \cup UNION {{f.content : f \in {g \in SeqToSet(recv[c]) : g.type = "message"}} :
                    c \in Conns}

\* C16: SendMessage accepts a content if and only if its code-point length is
\* in [1, 5000]; for a rejected content it returns an error and no message,
\* nothing is appended to the log, broadcast or cached, and the sender gets
\* ack status = error.
C16_SendValidation ==
    /\ \A content \in AnyContents :
           validateMessageContent(content) = "ok" <=> ValidLength(content)
    /\ \A i \in 1..Len(sendCalls) :
           /\ sendCalls[i].id # 0 <=> ValidLength(sendCalls[i].content)
           /\ sendCalls[i].id # 0 <=> sendCalls[i].err = "ok"
    /\ \A i \in Rejected :
           LET call == sendCalls[i]
           IN  /\ call.ackAt <= Len(recv[call.conn])
               /\ recv[call.conn][call.ackAt].type = "ack"
               /\ recv[call.conn][call.ackAt].status = "error"
    /\ ObservedContents \subseteq AcceptedContents
    /\ Cardinality(EntryIds(readAllUnsafe(walFile))) = Len(sendOk)
    /\ Len(sendOk) + Cardinality({c \in Conns : pc[c] = "wal"})
           = Len(sendCalls) - Cardinality(Rejected)

\* An empty and an over-long content were refused and a content of 2501
\* two-byte characters went through to the log and was acknowledged.
C16_Witness ==
    /\ \E i, j \in Rejected :
           sendCalls[i].content = "" /\ sendCalls[j].content = "a x5001"
    /\ \E i \in 1..Len(sendCalls) :
           /\ sendCalls[i].content = "U+00E9 x2501"
           /\ sendCalls[i].id \in EntryIds(readAllUnsafe(walFile))
           /\ sendCalls[i].id \in acked

\* ------------------------------------------------------ soft-deleted users
BanConns == {"c1", "c2"}

\* Members log in, connect and disconnect; tokens run out; the moderator
\* bans members one by one or in bulk.  Messages of u1 and u2 are stored.
NextBan ==
    \/ \E c \in BanConns : Connect(c) \/ Disconnect(c) \/ SessionEnd(c)
    \/ \E u \in Users \ {"adm"} : Login(u) \/ TokenExpire(u) \/ BanUser(u)
    \/ \E ids \in SUBSET (Users \ {"adm"}) : BanBulk(ids)

SpecBan == InitStored /\ [][NextBan]_vars

\* The stored messages of soft-deleted users that the initial read returns.
VisibleOfDeleted ==
    {r.id : r \in {m \in SeqToSet(RepoGetRecentMessages(store, InitialLimit)) :
                       m.user \in softDeleted}}

\* C17: after a user is soft-deleted its messages remain visible in reads,
\* and no new streaming session is opened for that identity, also not with a
\* token issued before the soft-delete that has not expired.
C17_SoftDeletedUser ==
    /\ VisibleOfDeleted = {r.id : r \in {m \in SeqToSet(store) : m.user \in softDeleted}}
    /\ lateSessions = {}

\* The messages of a soft-deleted user stay in the reads, and a login of that
\* user yields no new token.
C17_MessagesRemain ==
    /\ VisibleOfDeleted = {r.id : r \in {m \in SeqToSet(store) : m.user \in softDeleted}}
    /\ \A u \in softDeleted : ~ENABLED Login(u)

\* ------------------------------------------------------------- pagination
\* The limits of the GetMessagesBefore calls.
PageLimits == {1, PageLimit}

\* A session sends, the cache goroutines and the batch writer run, and pages
\* are read through the service.
NextPage ==
    \/ Connect("c1")
    \/ \E content \in Contents : SendStart("c1", content)
    \/ WalWrite("c1", "none")
    \/ \E d \in Conns : BroadcastWrite("c1", d)
    \/ SendAck("c1")
    \/ CacheSteps
    \/ DrainSnapshot
    \/ DrainInsert("none")
    \/ DrainCleanup("none", 0)
    \/ \E beforeID \in 1..MaxMsgs, limit \in PageLimits :
           ServiceGetMessagesBefore(beforeID, limit)

SpecPage == Init /\ [][NextPage]_vars

\* C18: GetMessagesBefore(seq, k) returns at most k messages, each with an
\* internal sequence number strictly less than seq, and each a row of the
\* store: the cache is not consulted and no undrained message is returned.
C18_PaginationMonotone ==
    beforeOut.called =>
        /\ Len(beforeOut.out) <= beforeOut.limit
        /\ \A i \in 1..Len(beforeOut.out) :
               /\ beforeOut.out[i].seq < beforeOut.before
               /\ beforeOut.out[i] \in SeqToSet(store)

\* A page of limit 1 was cut short of the two stored messages that precede
\* the sequence number, while a third message is cached and not yet stored.
C18_Witness ==
    /\ beforeOut.called
    /\ beforeOut.limit = 1
    /\ Len(beforeOut.out) = 1
    /\ Cardinality({r \in SeqToSet(store) : r.seq < beforeOut.before}) = 2
    /\ \E m \in SeqToSet(cache) : m.id \notin StoreIds(store)

\* -------------------------------------------------------------- happy send
\* HandleWebSocket for a session that is opened after the send of message 1
\* was acknowledged with status = success.
ConnectAfterAck(c) == 1 \in acked /\ Connect(c)

\* U (c1) connects and sends; V (c2) connects once U's first send has been
\* acknowledged; V's initial-messages goroutine and the cache goroutines run;
\* the batch writer's next tick is still ahead.
NextHappy ==
    \/ Connect("c1")
    \/ \E content \in Contents : SendStart("c1", content)
    \/ WalWrite("c1", "none")
    \/ \E d \in Conns : BroadcastWrite("c1", d)
    \/ SendAck("c1")
    \/ ConnectAfterAck("c2")
    \/ BackfillRead("c2")
    \/ BackfillWrite("c2")
    \/ CacheSteps

SpecHappy == Init /\ [][NextHappy]_vars

\* The ids of the initial-backfill frames written to c, in write order.
BackfillIds(c) ==
    LET frames == SelectSeq(recv[c], LAMBDA f : f.type = "message" /\ ~f.live)
    IN  [i \in 1..Len(frames) |-> frames[i].id]

\* C19: once U's send has been acknowledged with status = success, a session
\* that V opens afterwards receives the message in its initial backfill, as
\* the first frame when it is the only message, also when the message has not
\* been drained to the store.
C19_HappySend ==
    bf["c2"] = "done" =>
        /\ 1 \in SeqToSet(BackfillIds("c2"))
        /\ nextId = 2 => (recv["c2"] # <<>> /\ recv["c2"][1].id = 1)

\* --------------------------------------------------------- backfill order
\* Sessions connect to a server whose store holds two messages, with the
\* cache filled or empty; the initial-messages goroutines and the warm-up
\* goroutines they start run.
NextBackfill ==
    \/ \E c \in DelConns :
           \/ Connect(c)
           \/ Disconnect(c)
           \/ SessionEnd(c)
           \/ BackfillRead(c)
           \/ BackfillWrite(c)
    \/ CacheSteps

SpecBackfill == InitStored /\ [][NextBackfill]_vars

\* The creation times of the initial-backfill frames written to c, in write
\* order.
BackfillTimes(c) ==
    LET frames == SelectSeq(recv[c], LAMBDA f : f.type = "message" /\ ~f.live)
    IN  [i \in 1..Len(frames) |-> frames[i].ts]

Ascending(times) ==
    \A i, j \in 1..Len(times) : i < j => times[i] < times[j]

\* C20: for every newly connected session, whether recent(100) came from the
\* cache or from the store, and also after a store-driven warm-up of the
\* cache, the backfill frames are transmitted oldest first, in ascending
\* creation order.
C20_BackfillOldestFirst == \A c \in Conns : Ascending(BackfillTimes(c))

\* A backfill read from the store is transmitted oldest first.
C20_StoreBackfillOldestFirst ==
    \A c \in Conns : bfFrom[c] = "store" => Ascending(BackfillTimes(c))

\* ------------------------------------------------------ log after a crash
\* wal_test.go, a process killed around w.Write(entry) and started again
\* (NewWAL opens the same path).  effect: "none" (killed between two calls),
\* "partial" (killed inside WriteString: an unterminated prefix of the line is
\* in the file), "full" (killed after WriteString, before Write returned).
TestKill(effect) ==
    /\ crashes < MaxCrashes
    /\ effect # "none" => (nextId <= MaxMsgs /\ walHandle = "open")
    /\ walFile' = IF effect = "full"
                  THEN WriteString(walFile, walTorn,
                                   WALEntry(nextId, "u1", "hi", nextId))
                  ELSE walFile
    /\ walTorn' = IF effect = "full" THEN FALSE
                  ELSE IF effect = "partial" THEN TRUE ELSE walTorn
    /\ walHandle' = "open"
    /\ nextId' = IF effect = "none" THEN nextId ELSE nextId + 1
    /\ crashes' = crashes + 1
    /\ UNCHANGED <<store, cacheVars, connVars, bfVars, drainVars, ghostVars,
                   faults, harnessVars, pushLog, delVars, admitVars, sessVars,
                   valVars, authVars, pageVars,
                   recentVars,
                   orderVars,
                   linkVars,
                   muVars>>

NextWalCrash ==
    \/ TestWrite
    \/ \E effect \in {"none", "partial", "full"} : TestKill(effect)
    \/ \E ids \in SUBSET MsgIds : TestCleanup(ids)

SpecWalCrash == Init /\ [][NextWalCrash]_vars

\* The entries whose Write returned nil and that no later Cleanup named, in
\* the order of their Write calls.
Committed == PickIndexes(walWritten, WrittenIndexes, 1)

\* What ReadAll returns of the entries whose Write returned nil.
SnapshotOfWritten ==
    SelectSeq(readAllUnsafe(walFile), LAMBDA e : e \in SeqToSet(walWritten))

\* C21 -- Trailing partial line: when a crash inside an append left an
\* unterminated line at the end of the log, ReadAll drops that partial record
\* and still returns every committed entry in insertion order, the entries
\* whose Write returned nil after the restart included.
C21_SnapshotAfterTornWrite == SnapshotOfWritten = Committed

\* Until the next append, the partial line at the end of the file costs
\* nothing: ReadAll returns every committed entry, in order.
C21_TornTailDiscarded == walTorn => SnapshotOfWritten = Committed

\* ----------------------------------------------------- compaction faults
\* wal_test.go with a failing disk: w.Cleanup(persistedIDs) during which one
\* step fails (the fault kinds of Cleanup).
TestCleanupFault(persistedIDs, fault, kept) ==
    /\ Len(walCleanLog) < MaxCleanups
    /\ faults < MaxFaults
    /\ fault = "tempwrite" =>
           kept < Len(RemainingEntries(walFile, persistedIDs))
    /\ fault # "tempwrite" => kept = 0
    /\ LET r == Cleanup(walFile, walTorn, walHandle, persistedIDs, fault, kept)
       IN  /\ walFile' = r.file
           /\ walTorn' = r.torn
           /\ walHandle' = r.handle
           /\ walCleanLog' = IF r.err THEN walCleanLog
                             ELSE Append(walCleanLog,
                                         [ids |-> persistedIDs,
                                          at |-> Len(walWritten)])
    /\ faults' = faults + 1
    /\ UNCHANGED <<store, cacheVars, connVars, bfVars, drainVars, ghostVars,
                   nextId, crashes, walWritten, walLastErr, recentOut,
                   pushLog, delVars, admitVars, sessVars, valVars, authVars,
                   pageVars,
                   recentVars,
                   orderVars,
                   linkVars,
                   muVars>>

NextWalFault ==
    \/ TestWrite
    \/ \E ids \in SUBSET MsgIds : TestCleanup(ids)
    \/ \E ids \in SUBSET MsgIds, fault \in CleanupFaults, kept \in 0..MaxMsgs :
           TestCleanupFault(ids, fault, kept)

SpecWalFault == Init /\ [][NextWalFault]_vars

\* A Cleanup call in which the step `fault` fails.
CleanupFailsAt(fault) ==
    \E ids \in SUBSET MsgIds, kept \in 0..MaxMsgs :
        TestCleanupFault(ids, fault, kept)

\* C22 -- Failed compaction: when the creation of the temp file, a write to it
\* or the rename fails inside Cleanup, the active log file is unchanged: ReadAll
\* returns after the call exactly the entries it returned before it, in the
\* same order.
C22_FailedCleanupKeepsLog ==
    [][\A fault \in {"create", "tempwrite", "rename"} :
           CleanupFailsAt(fault) =>
               readAllUnsafe(walFile') = readAllUnsafe(walFile)]_vars

\* When os.Create or os.Rename fails, Cleanup returns the error and the file
\* at the log's path is the one it was.
C22_CreateOrRenameFailureKeepsLog ==
    [][\A fault \in {"create", "rename"} :
           CleanupFailsAt(fault) => (walFile' = walFile /\ walTorn' = walTorn)]_vars

\* ------------------------------------------------------ delete before drain
\* u1 sends one message and deletes, a moderator deletes, the cache goroutine
\* and the batch writer run: a delete can reach a message at any point between its
\* WAL write and its drain.
NextEarlyDelete ==
    \/ Connect("c1")
    \/ \E content \in Contents : nextId = 1 /\ SendStart("c1", content)
    \/ WalWrite("c1", "none")
    \/ \E d \in Conns : BroadcastWrite("c1", d)
    \/ SendAck("c1")
    \/ \E c \in DelConns : DeleteSteps(c)
    \/ Connect("c3")
    \/ CacheSteps
    \/ DrainTick

SpecEarlyDelete == Init /\ [][NextEarlyDelete]_vars

\* The DeleteMessage calls whose target was in the log and not in the store
\* when the call looked it up.
EarlyDeletes == {i \in 1..Len(delLog) : delLog[i].logged /\ ~delLog[i].stored}

\* A delete_message request for an id that is not a row of the store ends in
\* the lookup: nothing but the requester's error frame changes.
RefusedInLookup(c, id) ==
    /\ store' = store
    /\ cache' = cache
    /\ walFile' = walFile
    /\ pc'[c] = "idle"
    /\ recv'[c] = Append(recv[c], ErrorFrame(ErrMessageNotFound))
    /\ \A d \in Conns \ {c} : recv'[d] = recv[d]

\* C23 -- Delete before drain: DeleteMessage on a message that is in the log
\* (and maybe in the cache, and already broadcast) but not yet in the store
\* returns ErrMessageNotFound; the store, the cache and the log are unchanged
\* by it and no message_deleted event is broadcast.
C23_DeleteBeforeDrain ==
    /\ [](\A i \in EarlyDeletes : delLog[i].result = ErrMessageNotFound)
    /\ [](\A d \in Conns : \A i \in 1..Len(recv[d]) :
              recv[d][i].type = "message_deleted" =>
                  recv[d][i].id \in StoreIds(store))
    /\ [](\A i \in 1..Len(cache) :
              cache[i].deleted => cache[i].id \in StoreIds(store))
    /\ [][\A c \in Conns, id \in MsgIds :
              (DeleteStart(c, id) /\ id \notin StoreIds(store)) =>
                  RefusedInLookup(c, id)]_vars

\* Message 1 was broadcast, acknowledged and cached and is still only in the
\* log; its author's delete and the moderator's delete were both refused.
C23_Witness ==
    /\ 1 \in acked
    /\ 1 \in EntryIds(readAllUnsafe(walFile)) \ StoreIds(store)
    /\ \E i \in 1..Len(cache) : cache[i].id = 1 /\ ~cache[i].deleted
    /\ \E i \in 1..Len(recv["c1"]) : recv["c1"][i].live /\ recv["c1"][i].id = 1
    /\ {delLog[i].user : i \in EarlyDeletes} = {"u1", "adm"}
    /\ \A i \in EarlyDeletes : delLog[i].id = 1

\* ------------------------------------------------------- cache tombstone
\* The store and the cache hold messages 1 and 2 (or the cache is empty); a
\* moderator deletes while u1 sends a message, whose cache goroutine runs
\* CacheMessage next to the delete's MarkMessageAsDeleted.
NextTombstone ==
    \/ Connect("c1")
    \/ \E content \in Contents : SendStart("c1", content)
    \/ WalWrite("c1", "none")
    \/ \E d \in Conns : BroadcastWrite("c1", d)
    \/ SendAck("c1")
    \/ Connect("c3")
    \/ DeleteSteps("c3")
    \/ CacheSteps

SpecTombstone == InitStored /\ [][NextTombstone]_vars

\* The list after a tombstone of id: same length, same order, the entries
\* with this MessageID carry the delete flags, every other entry is as it was.
TombstonedList(list, id, isDeletedByAdmin) ==
    [i \in 1..Len(list) |->
        IF list[i].id = id THEN Tombstone(list[i], isDeletedByAdmin)
        ELSE list[i]]

\* C24 -- Cache tombstone: MarkMessageAsDeleted(id, byModerator), also while
\* CacheMessage calls run next to it, sets the delete flags on the cache
\* entry with MessageID id only and leaves every other entry, the length and
\* the order of the list as they are; when id is not in the list it changes
\* nothing and returns nil.
C24_TombstoneAtomic ==
    [][\A c \in Conns :
           /\ DeleteCacheSet(c) =>
                  cache' = TombstonedList(cache, cur[c].id, cur[c].isAdmin)
           /\ DeleteCacheRead(c) => cache' = cache]_vars

\* With no CacheMessage call between its LRANGE and its LSET,
\* MarkMessageAsDeleted flags the entry of id and nothing else.
C24_TombstoneAlone ==
    [][\A c \in Conns :
           (DeleteCacheSet(c) /\ CacheFind(cache, cur[c].id) = cur[c].idx) =>
               cache' = TombstonedList(cache, cur[c].id, cur[c].isAdmin)]_vars

\* A MarkMessageAsDeleted call for an id that is not in the list returns nil
\* (DeleteMessage returns nil) and leaves the list as it is.
C24_AbsentIsNoOp ==
    [][\A c \in Conns :
           (DeleteCacheRead(c) /\ CacheFind(cache, cur[c].id) = 0) =>
               (cache' = cache /\ cur[c].id \in delOk')]_vars

\* ------------------------------------------------------ recent and warm-up
\* A caller (a handler or a test) runs MessageService.GetRecentMessages(k);
\* the call is recorded with the cache list it met and whether a CacheMessage
\* goroutine was running.
TestServiceRecent(k) ==
    /\ Len(recentCalls) < MaxRecentCalls
    /\ LET by == IF recentCalls = <<>> THEN "r1" ELSE "r2"
           r  == ServiceGetRecentMessages(k, by)
       IN  /\ recentCalls' = Append(recentCalls,
                                    [k |-> k, from |-> r.from, msgs |-> r.msgs,
                                     cacheAt |-> cache,
                                     quiet |-> (cacheTasks = {})])
           /\ cacheTasks' = cacheTasks \cup r.tasks
    /\ UNCHANGED <<walVars, store, cache, connVars, bfVars, drainVars,
                   ghostVars, nextId, crashes, faults, harnessVars, pushLog,
                   delVars, admitVars, sessVars, valVars, authVars, pageVars,
                   orderVars,
                   linkVars,
                   muVars>>

\* The limits of the calls: one message, every stored message, and the limit
\* of sendInitialMessages.
WarmupLimits == {1, 2, InitialLimit}

NextWarmup ==
    \/ \E k \in WarmupLimits : TestServiceRecent(k)
    \/ CacheSteps

SpecWarmup == InitStored /\ [][NextWarmup]_vars

\* C25 -- recent(k): GetRecentMessages(k) returns the first k cache entries
\* when the cache is not empty, else the store's newest-first result, which it
\* pushes into the cache; once that warm-up has ended, the next
\* GetRecentMessages(k') returns the messages of the first call in the same
\* newest-first order the store returned them in.
C25_RecentWarmup ==
    /\ \A i \in 1..Len(recentCalls) :
           LET call == recentCalls[i]
           IN  IF call.cacheAt # <<>>
               THEN call.from = "cache" /\ call.msgs = Prefix(call.cacheAt, call.k)
               ELSE call.from = "store"
                    /\ call.msgs = RepoGetRecentMessages(store, call.k)
    /\ (Len(recentCalls) = 2 /\ recentCalls[1].from = "store"
            /\ recentCalls[2].quiet) =>
           MsgIdSeq(recentCalls[2].msgs)
               = Prefix(MsgIdSeq(recentCalls[1].msgs), recentCalls[2].k)

\* Every call returns the cache when it holds anything and the store's
\* newest-first result otherwise, and a warm-up that has ended left exactly
\* the returned messages in the cache.
C25_RecentSource ==
    /\ \A i \in 1..Len(recentCalls) :
           LET call == recentCalls[i]
           IN  IF call.cacheAt # <<>>
               THEN call.from = "cache" /\ call.msgs = Prefix(call.cacheAt, call.k)
               ELSE call.from = "store"
                    /\ call.msgs = RepoGetRecentMessages(store, call.k)
    /\ (Len(recentCalls) = 1 /\ recentCalls[1].from = "store"
            /\ cacheTasks = {}) =>
           SeqToSet(cache) = SeqToSet(recentCalls[1].msgs)

\* ------------------------------------------------------------ drain order
\* Two sessions send at the same time, so that the order of the log is not
\* the order of the ids; the batch writer runs with I/O faults and a restart.
OrderConns == {"c1", "c2"}

NextOrder ==
    \/ \E c \in OrderConns : Connect(c) \/ SendSteps(c)
    \/ DrainSteps
    \/ CrashSteps

SpecOrder == Init /\ [][NextOrder]_vars

\* C26 -- Drainer monotonicity: of any two rows of the store, the one whose
\* entry was appended to the log first has the smaller internal sequence
\* number, within one batch and across batches, restarts and retried batches.
C26_DrainerMonotone ==
    /\ StoreIds(store) \subseteq SeqToSet(appendLog)
    /\ \A i, j \in 1..Len(store) :
           Pos(appendLog, store[i].id) < Pos(appendLog, store[j].id) =>
               store[i].seq < store[j].seq

\* Message 2 reached the log before message 1; both were drained; the process
\* failed once and was restarted once, and message 3 was sent and drained.
C26_Witness ==
    /\ appendLog = <<2, 1, 3>>
    /\ MsgIdSeq(store) = <<2, 1, 3>>
    /\ crashes = 1
    /\ faults = 1

\* ------------------------------------------------------- sequence numbers
\* C27 -- Internal sequence number: every copy of a message that exists
\* before the batch writer stored it (the message SendMessage returns, the
\* live message frame, the cache entry SendMessage pushes) has ID 0, and the
\* IDs of the rows of the store are positive, pairwise distinct and strictly
\* increasing in insertion order.
C27_SequenceAbsentUntilDrained ==
    /\ \A c \in Conns : pc[c] \in {"wal", "bcast"} => cur[c].msg.seq = 0
    /\ \A d \in Conns : \A i \in 1..Len(recv[d]) :
           (recv[d][i].type = "message" /\ recv[d][i].live) => recv[d][i].seq = 0
    /\ \A t \in cacheTasks : \A i \in 1..Len(t.msgs) :
           t.msgs[i].id \notin StoreIds(store) => t.msgs[i].seq = 0
    /\ \A i \in 1..Len(cache) :
           cache[i].id \notin StoreIds(store) => cache[i].seq = 0
    /\ \A i \in 1..Len(store) : store[i].seq > 0
    /\ \A i, j \in 1..Len(store) : i < j => store[i].seq < store[j].seq

\* Messages 1 and 2 are rows with IDs 1 and 2; message 3 was broadcast and
\* cached, is only in the log, and its frame and cache entry carry ID 0.
C27_Witness ==
    /\ MsgIdSeq(store) = <<1, 2>>
    /\ store[1].seq = 1 /\ store[2].seq = 2
    /\ 3 \in Logged
    /\ cache # <<>> /\ cache[1].id = 3 /\ cache[1].seq = 0
    /\ \E i \in 1..Len(recv["c1"]) :
           recv["c1"][i].live /\ recv["c1"][i].id = 3 /\ recv["c1"][i].seq = 0

\* ------------------------------------------------------------ page window
\* Two sessions send at the same time (a message takes its timestamp before
\* its line is appended to the log), the batch writer runs, and one page is
\* read through the service.
NextWindow ==
    \/ \E c \in OrderConns :
           \/ Connect(c)
           \/ \E content \in Contents : SendStart(c, content)
           \/ WalWrite(c, "none")
           \/ \E d \in Conns : BroadcastWrite(c, d)
           \/ SendAck(c)
    \/ DrainTick
    \/ \E beforeID \in 1..(MaxMsgs + 1), limit \in PageLimits :
           ~beforeOut.called /\ ServiceGetMessagesBefore(beforeID, limit)

SpecWindow == Init /\ [][NextWindow]_vars

\* The k rows with the largest IDs below beforeID, newest first (the rows of
\* the store are in ID order).
Window(rows, beforeID, k) ==
    Prefix(Reverse(SelectSeq(rows, LAMBDA r : r.seq < beforeID)), k)

\* The creation times of the rows grow with their IDs.
TimesFollowIds ==
    \A i, j \in 1..Len(store) : i < j => store[i].ts < store[j].ts

\* C28 -- Contiguous window: GetMessagesBefore(seq, k) returns exactly the
\* min(k, available) stored messages with the largest internal sequence
\* numbers below seq, newest first, none skipped, also when creation times and
\* sequence numbers are ordered differently.
C28_ContiguousWindow ==
    [][\A beforeID \in 1..(MaxMsgs + 1), limit \in PageLimits :
           ServiceGetMessagesBefore(beforeID, limit) =>
               beforeOut'.out = Window(store, beforeID, limit)]_vars

\* When the creation times of the rows grow with their IDs, the page is that
\* window of the rows that are not tombstoned.
C28_WindowWhenTimesFollowIds ==
    [][\A beforeID \in 1..(MaxMsgs + 1), limit \in PageLimits :
           (ServiceGetMessagesBefore(beforeID, limit) /\ TimesFollowIds) =>
               beforeOut'.out = Window(Scoped(store), beforeID, limit)]_vars

\* ------------------------------------------------------ repeated delete
\* The delete columns of a row.
DeleteColumns(r) ==
    [deleted |-> r.deleted, delTime |-> r.delTime, deletedBy |-> r.deletedBy,
     byAdmin |-> r.byAdmin]

\* The SoftDeleteMessage call of c targets a row that is tombstoned already.
SecondSoftDelete(c) ==
    /\ DeleteStore(c, "none")
    /\ \E i \in 1..Len(store) : store[i].seq = cur[c].row.seq /\ store[i].deleted

\* C29 -- softDelete is idempotent: a SoftDeleteMessage (or DeleteMessage)
\* applied to a message that is tombstoned already leaves the store as the
\* first one left it; the deleter, the delete timestamp and the
\* deleted-by-moderator flag the first delete set are never overwritten.
C29_SoftDeleteIdempotent ==
    /\ [][\A c \in Conns : SecondSoftDelete(c) => store' = store]_vars
    /\ [][\A c \in Conns, id \in MsgIds :
              (DeleteStart(c, id) /\ id \in StoreIds(store) /\ RowOf(id).deleted)
                  => store' = store]_vars
    /\ [][\A i \in 1..Len(store) :
              store[i].deleted =>
                  /\ i <= Len(store')
                  /\ DeleteColumns(store'[i]) = DeleteColumns(store[i])]_vars

\* The author and a moderator both deleted message 1, their calls overlapped
\* and both returned nil; the row carries what the author's delete set.
C29_Witness ==
    /\ \E i, j \in 1..Len(delLog) :
           /\ delLog[i].id = 1 /\ delLog[i].user = "u1" /\ delLog[i].result = "ok"
           /\ delLog[j].id = 1 /\ delLog[j].user = "adm" /\ delLog[j].result = "ok"
    /\ RowOf(1).deleted
    /\ RowOf(1).deletedBy = "u1"
    /\ ~RowOf(1).byAdmin

\* ---------------------------------------------------- tombstone columns
\* A copy that is marked deleted names its delete time and its deleter.
Stamped(m) == m.deleted => (m.delTime # "zero" /\ m.deletedBy # NoUser)

\* C30 -- In every reachable state, every copy of a message that is marked
\* deleted, in the store and in the cache, has its delete timestamp and its
\* deleter identifier set.
C30_DeletedIsStamped ==
    /\ \A i \in 1..Len(store) : Stamped(store[i])
    /\ \A i \in 1..Len(cache) : Stamped(cache[i])

\* Every tombstoned row of the store has its delete timestamp and its deleter.
C30_StoredDeletedIsStamped == \A i \in 1..Len(store) : Stamped(store[i])

\* ------------------------------------------------- a failing broadcast write
\* The transport of a registered connection stops taking writes: the peer is gone
\* or stalls past the write deadline. Every conn.WriteJSON on it fails from then on;
\* its reader goroutine finds out at its next read (Disconnect).
TransportBreak(d) ==
    /\ d \in clients
    /\ d \notin broken
    /\ Cardinality(broken) < MaxBroken
    /\ broken' = broken \cup {d}
    /\ UNCHANGED <<walVars, store, cacheVars, connVars, bfVars, drainVars,
                   ghostVars, nextId, crashes, faults, harnessVars, pushLog,
                   delVars, admitVars, sessVars, valVars, authVars, pageVars,
                   recentVars, orderVars,
                   muVars>>

NextIsolation ==
    \/ Login("u2")
    \/ \E c \in Conns : Connect(c)
    \/ \E c \in Conns \ {"c1"} :
           \/ Disconnect(c)
           \/ SessionEnd(c)
           \/ TransportBreak(c)
    \/ \E content \in Contents : SendStart("c1", content)
    \/ WalWrite("c1", "none")
    \/ \E d \in Conns : BroadcastWrite("c1", d)
    \/ SendAck("c1")
    \/ DeleteSteps("c3")

SpecIsolation == InitStored /\ [][NextIsolation]_vars

HasLive(d, id) ==
    \E i \in 1..Len(recv[d]) : IsLive(recv[d][i]) /\ recv[d][i].id = id

HasDeleteEvent(d, id) ==
    \E i \in 1..Len(recv[d]) :
        recv[d][i].type = "message_deleted" /\ recv[d][i].id = id

\* C31 -- Broadcast failure isolation: a write that fails during a broadcast does
\* not end the loop: when broadcastToAll or broadcastDeleteEvent returns, every
\* registered session has got the frame or its own write failed. No step of a
\* broadcast changes the registry, and a session leaves the registry only by the
\* removeClient of its own reader goroutine, after that reader's loop ended.
C31_BroadcastIsolation ==
    [][ /\ \A c \in Conns : SendAck(c) =>
               \A d \in clients : d \in broken \/ HasLive(d, cur[c].msg.id)
        /\ \A c \in Conns : DeleteDone(c) =>
               \A d \in clients : d \in broken \/ HasDeleteEvent(d, cur[c].id)
        /\ \A c, d \in Conns :
               (BroadcastWrite(c, d) \/ DeleteBroadcastWrite(c, d)) =>
                   clients' = clients
        /\ \A d \in clients \ clients' :
               pc[d] = "closing" /\ RemoveClient(d) ]_vars

\* A broadcast is in its loop: its write to a registered session has failed, that
\* session is still registered and has no frame, and the loop still has a third
\* session to write to.
C31_Witness ==
    \E c \in Conns :
        /\ pc[c] \in {"bcast", "del_bcast"}
        /\ \E d \in (clients \cap broken) \ bcastLeft[c] :
               /\ d # c
               /\ pc[c] = "bcast" => ~HasLive(d, cur[c].msg.id)
               /\ pc[c] = "del_bcast" => ~HasDeleteEvent(d, cur[c].id)
        /\ bcastLeft[c] \ (broken \cup {c}) # {}

\* ------------------------------------------------------- the log's mutex
\* A lock that never waits.
LockFree(mu, t) == TRUE

\* w.mu.Lock() returns to task t: nobody holds the mutex.
MuLock(mu, t) == mu = NoTask

otherWalVars == <<store, cacheVars, connVars, bfVars, drainVars, ghostVars,
                  crashes, faults, recentOut, pushLog, delVars, admitVars,
                  sessVars, valVars, authVars, pageVars, recentVars, orderVars,
                  linkVars>>

\* Task t enters a WAL method: call describes the method and its arguments.
WalEnter(t, call) ==
    /\ walTask[t].pc = "idle"
    /\ MuLock(walMu, t)
    /\ walMu' = t
    /\ walTask' = [walTask EXCEPT ![t] = call]

\* "defer w.mu.Unlock()": the method returns.
WalLeave(t) ==
    /\ walMu' = NoTask
    /\ walTask' = [walTask EXCEPT ![t] = NoCall]

\* WAL.Write(entry), from w.mu.Lock().
WalWriteLock(t) ==
    /\ nextId <= MaxMsgs
    /\ WalEnter(t, [NoCall EXCEPT !.pc = "write",
                                  !.e = WALEntry(nextId, "u1", "hi", nextId)])
    /\ nextId' = nextId + 1
    /\ UNCHANGED <<walVars, harnessVars, walCalls, otherWalVars>>

\* WAL.Write: WriteString, Sync, return.
WalWriteBody(t) ==
    /\ walTask[t].pc = "write"
    /\ LET r == Write(walFile, walTorn, walHandle, walTask[t].e, "none")
       IN  /\ walFile' = r.file
           /\ walTorn' = r.torn
           /\ walWritten' = IF r.err THEN walWritten
                            ELSE Append(walWritten, walTask[t].e)
           /\ walLastErr' = (walLastErr \/ r.err)
    /\ WalLeave(t)
    /\ UNCHANGED <<walHandle, walCleanLog, walCalls, nextId, otherWalVars>>

\* WAL.ReadAll / WAL.GetAllEntries, from w.mu.Lock().
WalReadLock(t) ==
    /\ Cardinality({i \in 1..Len(walCalls) : walCalls[i].op = "read"})
          + Cardinality({u \in WalTasks : walTask[u].pc = "read"}) < MaxSnaps
    /\ WalEnter(t, [NoCall EXCEPT !.pc = "read"])
    /\ UNCHANGED <<walVars, harnessVars, walCalls, nextId, otherWalVars>>

\* WAL.ReadAll: readAllUnsafe, return.  The call is recorded with its result and
\* with the entries the Write and Cleanup calls that had returned leave.
WalReadBody(t) ==
    /\ walTask[t].pc = "read"
    /\ walCalls' = Append(walCalls,
                          [op |-> "read", got |-> readAllUnsafe(walFile),
                           left |-> PickIndexes(walWritten, WrittenIndexes, 1)])
    /\ WalLeave(t)
    /\ UNCHANGED <<walVars, harnessVars, nextId, otherWalVars>>

\* WAL.Cleanup(persistedIDs), from w.mu.Lock().
WalCleanupLock(t, persistedIDs) ==
    /\ Len(walCleanLog)
          + Cardinality({u \in WalTasks :
                            walTask[u].pc \in {"c_read", "c_close", "c_swap",
                                               "c_open"}}) < MaxCleanups
    /\ WalEnter(t, [NoCall EXCEPT !.pc = "c_read", !.ids = persistedIDs])
    /\ UNCHANGED <<walVars, harnessVars, walCalls, nextId, otherWalVars>>

\* WAL.Cleanup: readAllUnsafe and the filter loop.
WalCleanupRead(t) ==
    /\ walTask[t].pc = "c_read"
    /\ walTask' = [walTask EXCEPT
                      ![t].pc = "c_close",
                      ![t].remaining = RemainingEntries(walFile, walTask[t].ids)]
    /\ UNCHANGED <<walVars, harnessVars, walMu, walCalls, nextId, otherWalVars>>

\* WAL.Cleanup: w.file.Close(); on a handle that is closed already it returns the
\* error and the method ends.
WalCleanupClose(t) ==
    /\ walTask[t].pc = "c_close"
    /\ IF walHandle = "closed"
       THEN WalLeave(t) /\ UNCHANGED walHandle
       ELSE /\ walHandle' = "closed"
            /\ walTask' = [walTask EXCEPT ![t].pc = "c_swap"]
            /\ UNCHANGED walMu
    /\ UNCHANGED <<walFile, walTorn, harnessVars, walCalls, nextId, otherWalVars>>

\* WAL.Cleanup: os.Create of the temp file, the copy loop, Sync, Close, os.Rename.
WalCleanupSwap(t) ==
    /\ walTask[t].pc = "c_swap"
    /\ walFile' = walTask[t].remaining
    /\ walTorn' = FALSE
    /\ walTask' = [walTask EXCEPT ![t].pc = "c_open"]
    /\ UNCHANGED <<walHandle, harnessVars, walMu, walCalls, nextId, otherWalVars>>

\* WAL.Cleanup: os.OpenFile, w.file = newFile, return nil.
WalCleanupReopen(t) ==
    /\ walTask[t].pc = "c_open"
    /\ walHandle' = Reopen
    /\ walCleanLog' = Append(walCleanLog,
                             [ids |-> walTask[t].ids, at |-> Len(walWritten)])
    /\ WalLeave(t)
    /\ UNCHANGED <<walFile, walTorn, walWritten, walLastErr, recentOut, walCalls,
                   nextId, otherWalVars>>

\* WAL.Close, from w.mu.Lock(): the shutdown path calls it once.
WalCloseLock(t) ==
    /\ \A i \in 1..Len(walCalls) : walCalls[i].op # "close"
    /\ \A u \in WalTasks : walTask[u].pc # "close"
    /\ WalEnter(t, [NoCall EXCEPT !.pc = "close"])
    /\ UNCHANGED <<walVars, harnessVars, walCalls, nextId, otherWalVars>>

\* WAL.Close: w.file.Close(), return.
WalCloseBody(t) ==
    /\ walTask[t].pc = "close"
    /\ walHandle' = "closed"
    /\ walCalls' = Append(walCalls, [op |-> "close", got |-> <<>>, left |-> <<>>])
    /\ WalLeave(t)
    /\ UNCHANGED <<walFile, walTorn, harnessVars, nextId, otherWalVars>>

NextWalMutex ==
    \E t \in WalTasks :
        \/ WalWriteLock(t)
        \/ WalWriteBody(t)
        \/ WalReadLock(t)
        \/ WalReadBody(t)
        \/ \E ids \in SUBSET MsgIds : WalCleanupLock(t, ids)
        \/ WalCleanupRead(t)
        \/ WalCleanupClose(t)
        \/ WalCleanupSwap(t)
        \/ WalCleanupReopen(t)
        \/ WalCloseLock(t)
        \/ WalCloseBody(t)

SpecWalMutex == Init /\ [][NextWalMutex]_vars

InsideWal == {t \in WalTasks : walTask[t].pc # "idle"}

\* C32 -- The append log is serial: at most one task is inside Write, ReadAll /
\* GetAllEntries, Cleanup or Close at a time, and it is the holder of the mutex.
\* Every snapshot is exactly the entries that the Write and Cleanup calls returned
\* before it leave, and whenever no task is inside, the file holds exactly the
\* written entries that no later Cleanup named: no Write went to a file that a
\* Cleanup then replaced.
C32_LogIsSerial ==
    /\ Cardinality(InsideWal) <= 1
    /\ \A t \in InsideWal : walMu = t
    /\ \A i \in 1..Len(walCalls) :
           walCalls[i].op = "read" => walCalls[i].got = walCalls[i].left
    /\ InsideWal = {} =>
           readAllUnsafe(walFile) = PickIndexes(walWritten, WrittenIndexes, 1)

\* A Cleanup that removes an entry is between its read and its rename, holding the
\* mutex, while another task still has a Write to make: two entries were written
\* and a snapshot with entries was taken before.
C32_Witness ==
    \E t \in WalTasks :
        /\ walTask[t].pc \in {"c_close", "c_swap"}
        /\ walTask[t].ids # {}
        /\ Len(walTask[t].remaining) < Len(readAllUnsafe(walFile))
        /\ Len(walWritten) >= 2
        /\ nextId <= MaxMsgs
        /\ \E i \in 1..Len(walCalls) : walCalls[i].op = "read" /\ walCalls[i].got # <<>>

\* ------------------------------------------------------ delete propagation
\* Three sessions (an author, another user, a moderator) come and go and ask for
\* deletes of the stored messages; the store can fail the soft delete.
NextPropagate ==
    \E c \in Conns :
        \/ Connect(c)
        \/ Disconnect(c)
        \/ SessionEnd(c)
        \/ \E id \in MsgIds : DeleteStart(c, id)
        \/ \E fault \in FaultChoices({"db"}) : DeleteStore(c, fault)
        \/ DeleteCacheRead(c)
        \/ DeleteCacheSet(c)
        \/ \E d \in Conns : DeleteBroadcastWrite(c, d)
        \/ DeleteDone(c)
        \/ Login(ConnUser(c))

SpecPropagate == InitStored /\ [][NextPropagate]_vars

GotDeleteEvent(d, id, byAdmin) ==
    \E i \in 1..Len(recv[d]) :
        /\ recv[d][i].type = "message_deleted"
        /\ recv[d][i].id = id
        /\ recv[d][i].byAdmin = byAdmin

DeleteEvents(stream) ==
    SelectSeq(stream, LAMBDA f : f.type = "message_deleted")

\* C33 -- Delete propagation: when handleDeleteMessage ends after a DeleteMessage
\* that returned nil, every registered session holds a message_deleted event with
\* the message's stable identifier and the requester's moderator flag; each such
\* event is written only after DeleteMessage returned, with the row tombstoned in
\* the store and no live copy left in the cache.  A DeleteMessage that returns an
\* error adds one error event to the requester's stream and nothing to any other
\* stream, and no step but a broadcast step of a successful delete adds a
\* message_deleted event.
C33_DeletePropagation ==
    [][ /\ \A c \in Conns : DeleteDone(c) =>
               \A d \in clients :
                   GotDeleteEvent(d, cur[c].id, IsAdminUser(ConnUser(c)))
        /\ \A c, d \in Conns : DeleteBroadcastWrite(c, d) =>
               /\ cur[c].id \in delOk
               /\ \E i \in 1..Len(delLog) :
                      /\ delLog[i].id = cur[c].id
                      /\ delLog[i].user = ConnUser(c)
                      /\ delLog[i].result = "ok"
               /\ \E i \in 1..Len(store) : store[i].id = cur[c].id /\ store[i].deleted
               /\ \A i \in 1..Len(cache) : cache[i].id = cur[c].id => cache[i].deleted
        /\ (Len(delLog') = Len(delLog) + 1 /\ delLog'[Len(delLog')].result # "ok") =>
               \E c \in Conns :
                   /\ ConnUser(c) = delLog'[Len(delLog')].user
                   /\ recv' = [recv EXCEPT ![c] =
                                  Append(recv[c], ErrorFrame(delLog'[Len(delLog')].result))]
        /\ \A d \in Conns :
               DeleteEvents(recv'[d]) # DeleteEvents(recv[d]) =>
                   \/ recv'[d] = <<>>
                   \/ \E c \in Conns : DeleteBroadcastWrite(c, d) ]_vars

\* The three sessions are registered; the moderator's delete of a message has
\* ended and each of them holds its event with the moderator flag; a delete asked
\* by a user who is not the author has failed, and that user holds the error.
C33_Witness ==
    /\ clients = Conns
    /\ \A c \in Conns : pc[c] = "idle"
    /\ \E id \in MsgIds :
           /\ id \in delOk
           /\ \A d \in Conns : GotDeleteEvent(d, id, TRUE)
    /\ \E i \in 1..Len(delLog) :
           /\ delLog[i].result = ErrUnauthorized
           /\ \E c \in Conns :
                  /\ ConnUser(c) = delLog[i].user
                  /\ \E k \in 1..Len(recv[c]) : recv[c][k] = ErrorFrame(ErrUnauthorized)

\* ---------------------------------------------------- a failing cache
allButCache == <<walVars, store, connVars, bfVars, drainVars, ghostVars, nextId,
                 crashes, faults, harnessVars, pushLog, delVars, admitVars,
                 sessVars, valVars, authVars, pageVars, recentVars, orderVars,
                 linkVars, muVars>>

\* CacheMessage returns an error (its LPUSH or its LTRIM failed, Redis is down).
\* SendMessage's goroutine logs "Failed to cache message to Redis" and ends; the
\* warm-up goroutine drops the error and goes on with its next message.
CacheFail(t) ==
    /\ t \in cacheTasks
    /\ cacheTasks' = (cacheTasks \ {t}) \cup
                       (IF Len(t.msgs) > 1
                        THEN {[t EXCEPT !.msgs = Tail(t.msgs),
                                        !.stage = "lpush"]}
                        ELSE {})
    /\ UNCHANGED <<cache, allButCache>>

\* A DeleteMessage that gives up when the cache update fails.
DeleteFailsOnCacheError(cacheErr) == cacheErr

\* DeleteMessage, what it returns when MarkMessageAsDeleted returned cacheErr:
\* the error is logged ("Don't fail the delete operation if Redis update fails")
\* and DeleteMessage returns nil.
DeleteResultOnCacheError(cacheErr) == "ok"

\* MarkMessageAsDeleted returns an error, at its LRANGE or at its LSET; then
\* DeleteMessage returns and handleDeleteMessage goes on with its result.
DeleteCacheFail(c) ==
    /\ pc[c] \in {"del_cache", "del_lset"}
    /\ LET result == DeleteResultOnCacheError("redis")
       IN  IF result = "ok"
           THEN /\ delOk' = delOk \cup {cur[c].id}
                /\ delLog' = Append(delLog, cur[c].call)
                /\ pc' = [pc EXCEPT ![c] = "del_bcast"]
                /\ bcastLeft' = [bcastLeft EXCEPT ![c] = clients]
                /\ UNCHANGED <<cur, recv>>
           ELSE /\ delLog' = Append(delLog, [cur[c].call EXCEPT !.result = result])
                /\ recv' = [recv EXCEPT ![c] = WriteJSON(c, ErrorFrame(result))]
                /\ pc' = [pc EXCEPT ![c] = "idle"]
                /\ cur' = [cur EXCEPT ![c] = NoReq]
                /\ UNCHANGED <<delOk, bcastLeft>>
    /\ UNCHANGED <<walVars, store, cacheVars, clients, bfVars, drainVars,
                   ghostVars, nextId, crashes, faults, harnessVars, pushLog,
                   lastRead, bfDone, bfFrom, admitVars, sessVars, valVars,
                   authVars, pageVars, recentVars, orderVars, linkVars, muVars>>

NextBestEffort ==
    \/ \E c \in DelConns :
           \/ Connect(c)
           \/ DeleteSteps(c)
           \/ DeleteCacheFail(c)
    \/ \E content \in Contents : SendStart("c1", content)
    \/ WalWrite("c1", "none")
    \/ \E d \in Conns : BroadcastWrite("c1", d)
    \/ SendAck("c1")
    \/ CacheSteps
    \/ \E t \in cacheTasks : CacheFail(t)

SpecBestEffort == InitStored /\ [][NextBestEffort]_vars

CachedIds == {cache[i].id : i \in 1..Len(cache)}

\* C34 -- Cache operations are best-effort: a CacheMessage that fails changes
\* nothing but the cache task; every message whose log append succeeded is in
\* SendMessage's results and is acknowledged with success once its broadcast is
\* over, cached or not; no DeleteMessage returns a cache error, and every row
\* whose soft delete was made is reported deleted with success once the cache
\* attempt is over, whatever the cache copy shows.
C34_CacheBestEffort ==
    /\ \A i \in 1..Len(sendOk) :
           \/ sendOk[i] \in acked
           \/ \E c \in Conns : pc[c] = "bcast" /\ cur[c].msg.id = sendOk[i]
    /\ sendErr = {}
    /\ \A i \in 1..Len(delLog) : delLog[i].result # "redis"
    /\ \A i \in 1..Len(store) :
           store[i].deleted =>
               \/ store[i].id \in delOk
               \/ \E c \in Conns :
                      pc[c] \in {"del_cache", "del_lset"} /\ cur[c].id = store[i].id

\* Message 3 was logged and acknowledged with success and its CacheMessage failed:
\* no cache task is left and the cache never took a push.  A delete has returned
\* success for a message whose cache copy is still live, so its cache update failed.
C34_Witness ==
    /\ 3 \in acked
    /\ 3 \in EntryIds(readAllUnsafe(walFile))
    /\ cacheTasks = {}
    /\ pushLog = <<1, 2>>
    /\ \E id \in delOk :
           /\ \E i \in 1..Len(store) : store[i].id = id /\ store[i].deleted
           /\ \E i \in 1..Len(cache) : cache[i].id = id /\ ~cache[i].deleted
    /\ \A c \in Conns : pc[c] \in {"idle", "off"}

\* ------------------------------------------- writers of one connection
\* Two sessions are opened; one sends; the other is the moderator's, it deletes and
\* its sendInitialMessages goroutine runs beside its reader.
NextWriters ==
    \/ \E c \in DelConns : Connect(c)
    \/ BackfillRead("c3")
    \/ BackfillWrite("c3")
    \/ \E content \in Contents : SendStart("c1", content)
    \/ WalWrite("c1", "none")
    \/ \E d \in Conns : BroadcastWrite("c1", d)
    \/ SendAck("c1")
    \/ DeleteSteps("c3")

SpecWriters == InitStored /\ [][NextWriters]_vars

\* The goroutines whose next step is a conn.WriteJSON on the connection of d: a
\* broadcast loop (of a send or of a delete) that has not written to d yet, the
\* reader of d about to reply (sendAck, delete_success) or to close the expired
\* session, the sendInitialMessages goroutine of d with a frame to write.  None of
\* them takes a lock for the write: the broadcasts hold h.mu.RLock(), which is
\* shared, the others hold nothing.
WritersAt(d) ==
    {<<"broadcast", c>> : c \in {c \in Conns : /\ pc[c] \in {"bcast", "del_bcast"}
                                               /\ d \in bcastLeft[c]}}
    \cup (IF pc[d] \in {"bcast", "del_bcast"} /\ bcastLeft[d] = {}
          THEN {<<"reply", d>>} ELSE {})
    \cup (IF AtExpiredSelect(d) THEN {<<"expire", d>>} ELSE {})
    \cup (IF bf[d] = "send" /\ bfMsgs[d] # <<>> THEN {<<"backfill", d>>} ELSE {})

\* C35 -- Writes to one session's connection are serialized: in no state are two
\* goroutines at a write to the same connection.
C35_WritesSerialized ==
    \A d \in Conns : Cardinality(WritersAt(d)) <= 1

\* --------------------------------------------- writes after a failed compaction
\* C36 -- After a Cleanup that returned an error the log still takes appends: every
\* Write, also one made after a Cleanup failed at the creation of the temp file, at
\* the rename or at the reopen, returns nil, and its entry is in the next snapshot.
C36_WriteAfterFailedCleanup ==
    [][TestWrite =>
          /\ Len(walWritten') = Len(walWritten) + 1
          /\ walWritten'[Len(walWritten')].id \in EntryIds(readAllUnsafe(walFile'))]_vars

\* A Write made while w.file is an open handle returns nil and its entry is in the
\* next snapshot: the Writes that fail are those that find the handle that a failed
\* Cleanup closed.
C36_WriteOnOpenHandle ==
    [][(TestWrite /\ walHandle = "open") =>
          /\ Len(walWritten') = Len(walWritten) + 1
          /\ walWritten'[Len(walWritten')].id \in EntryIds(readAllUnsafe(walFile'))]_vars

\* ------------------------------------------------- the counter's time-to-live
\* C37 -- Every rate-limit counter that exists carries the window's time-to-live:
\* whenever no request is inside the middleware (none stands between its INCR and
\* its EXPIRE), each key ratelimit:<ip> that exists has a TTL, also after an EXPIRE
\* that failed and after a stop of the process between the two commands.
C37_CounterHasTTL ==
    (\A s \in Slots : rq[s].pc = "idle") =>
        \A a \in Addrs : rlCount[a] > 0 => rlTTL[a]

\* A counter whose EXPIRE was executed keeps its TTL until the key expires: no
\* step takes the TTL off a key that exists.
C37_TTLStays ==
    [][\A a \in Addrs : (rlTTL[a] /\ rlCount'[a] > 0) => rlTTL'[a]]_vars

\* ------------------------------------------- a send during the initial backfill
\* U (c1) sends; V (c2) is opened at any moment, also while a send of U is on its
\* way; V's sendInitialMessages goroutine and the cache goroutines run.
NextOverlap ==
    \/ Connect("c1")
    \/ Connect("c2")
    \/ \E content \in Contents : SendStart("c1", content)
    \/ WalWrite("c1", "none")
    \/ \E d \in Conns : BroadcastWrite("c1", d)
    \/ SendAck("c1")
    \/ BackfillRead("c2")
    \/ BackfillWrite("c2")
    \/ CacheSteps

SpecOverlap == Init /\ [][NextOverlap]_vars

IsBackfill(f) == f.type = "message" /\ ~f.live

\* C38 -- Within one session every accepted message is delivered at most once: no
\* two message frames of a session, live or backfill, carry the same stable
\* identifier, and no live message event stands between two backfill frames.
C38_DeliveredOnce ==
    \A d \in Conns :
        /\ \A i, j \in 1..Len(recv[d]) :
               (i < j /\ recv[d][i].type = "message" /\ recv[d][j].type = "message")
                   => recv[d][i].id # recv[d][j].id
        /\ \A i, j, k \in 1..Len(recv[d]) :
               (i < j /\ j < k /\ IsBackfill(recv[d][i]) /\ IsBackfill(recv[d][k]))
                   => ~IsLive(recv[d][j])

\* The backfill frames of a session alone never repeat an identifier, and neither
\* do its live events: a repeated message is once a backfill frame and once a live
\* event.
C38_OncePerPath ==
    \A d \in Conns : \A i, j \in 1..Len(recv[d]) :
        (i < j /\ recv[d][i].type = "message" /\ recv[d][j].type = "message"
            /\ recv[d][i].live = recv[d][j].live)
            => recv[d][i].id # recv[d][j].id

\* ------------------------------------------------- one cache entry per message
\* C39 -- In every reachable state the cache holds at most one entry per stable
\* identifier, also while two reads that missed the cache warm it up at once.
C39_CacheIdsUnique ==
    \A i, j \in 1..Len(cache) : i # j => cache[i].id # cache[j].id

\* While at most one warm-up has been started, the cache holds at most one entry
\* per stable identifier.
C39_UniqueWithOneWarmup ==
    Cardinality({i \in 1..Len(recentCalls) : recentCalls[i].from = "store"}) <= 1
        => C39_CacheIdsUnique

\* ------------------------------------------------ one message, three paths
\* What a client can read of a message on each path: the live event, the cache
\* entry, the row of the store.
LiveCopies ==
    {[id |-> f.id, user |-> f.user, name |-> f.name, content |-> f.content,
      ts |-> f.ts] :
        f \in {g \in UNION {SeqToSet(recv[d]) : d \in Conns} : IsLive(g)}}

CacheCopies ==
    {[id |-> m.id, user |-> m.user, name |-> m.name, content |-> m.content,
      ts |-> m.ts] : m \in SeqToSet(cache)}

StoreCopies ==
    {[id |-> r.id, user |-> r.user, name |-> r.name, content |-> r.content,
      ts |-> r.ts] : r \in SeqToSet(store)}

Copies == LiveCopies \cup CacheCopies \cup StoreCopies

WithoutName(x) == [id |-> x.id, user |-> x.user, content |-> x.content, ts |-> x.ts]

\* C40 -- For every accepted message the stable identifier, the author, the
\* author's display name, the escaped content and the creation time are the same
\* in the live event, in the cache entry and in the stored row, and the content is
\* the input escaped once.
C40_SameOnEveryPath ==
    /\ \A a, b \in Copies : a.id = b.id => a = b
    /\ \A a \in Copies : \E content \in Contents : a.content = EscapeString(content)

\* Apart from the display name the three copies agree, and the content is the
\* input escaped once.
C40_SameButName ==
    /\ \A a, b \in Copies : a.id = b.id => WithoutName(a) = WithoutName(b)
    /\ \A a \in Copies : \E content \in Contents : a.content = EscapeString(content)

\* ------------------------------------------------------------ the server
\* Every step of the server: sessions and their timers, sends, deletes,
\* reads, the cache goroutines, the batch writer, admission, logins and bans,
\* I/O faults and restarts.
Next ==
    \/ \E c \in Conns :
           \/ Connect(c)
           \/ BlockRead(c)
           \/ Disconnect(c)
           \/ SessionExpire(c)
           \/ SessionEnd(c)
           \/ SendSteps(c)
           \/ \E content \in AnyContents : SendStart(c, content)
           \/ \E id \in MsgIds : DeleteStart(c, id)
           \/ \E fault \in FaultChoices({"db"}) : DeleteStore(c, fault)
           \/ DeleteCacheRead(c)
           \/ DeleteCacheSet(c)
           \/ \E d \in Conns : DeleteBroadcastWrite(c, d)
           \/ DeleteDone(c)
           \/ BackfillRead(c)
           \/ BackfillWrite(c)
           \/ TransportBreak(c)
           \/ DeleteCacheFail(c)
    \/ CacheSteps
    \/ \E t \in cacheTasks : CacheFail(t)
    \/ DrainSteps
    \/ CrashSteps
    \/ \E u \in Users, beforeID \in 1..(MaxMsgs + 1) : GetBefore(u, beforeID)
    \/ \E beforeID \in 1..MaxMsgs, limit \in PageLimits :
           ServiceGetMessagesBefore(beforeID, limit)
    \/ Tick
    \/ NextAdmit
    \/ \E u \in Users : Login(u) \/ TokenExpire(u) \/ BanUser(u)
    \/ \E ids \in SUBSET Users : BanBulk(ids)

Spec == Init /\ [][Next]_vars

====
